---- MODULE Spec2Model ----
(***************************************************************************)
(* SlashVibePR: the /pr dialog workflow.  The service listens on Redis     *)
(* pub/sub channels for Slack slash commands, view submissions, block      *)
(* actions and Poppit command output, keeps one session per Slack view in  *)
(* Redis, pushes Poppit commands and SlackLiner messages onto Redis lists  *)
(* and opens / pushes / updates Slack views.                               *)
(*                                                                         *)
(* Go strings whose characters the code inspects or concatenates are       *)
(* sequences of one-character strings; "" is << >>.  JSON texts are        *)
(* modelled by their syntax tree.                                          *)
(***************************************************************************)
EXTENDS Integers, Sequences, FiniteSets, TLC

VARIABLES
    sessions,       \* Redis string keys: key -> [val, ttl]
    poppitList,     \* Redis list config.RedisPoppitList
    slackLinerList, \* Redis list config.RedisSlackLinerList
    handled,        \* number of payloads handed to a handler so far
    ev,             \* the payload handled last, and the channel it came from
    calls,          \* the Redis and Slack calls its handler made, in order
    ctx,            \* main's context: "live", "cancelled", or "exited" (main returned)
    inbox,          \* per channel: the messages in pubsub.Channel() not yet received
    loop,           \* per subscriber: where its for/select loop is, and how the
                    \* last handler it called ended
    running         \* per subscriber: the handler calls in progress

dataVars == <<sessions, poppitList, slackLinerList, handled, ev, calls>>
loopVars == <<ctx, inbox, loop, running>>
vars == <<sessions, poppitList, slackLinerList, handled, ev, calls,
          ctx, inbox, loop, running>>

----------------------------------------------------------------------------
(* Bounds of the model *)

MaxEvents == 2
NumViews == 2
MaxArgLen == 3
MaxStoreOps == 4
MaxPublished == 3
MaxTitleLen == 80
MaxSessionEvents == 4

----------------------------------------------------------------------------
(* Strings *)

Letters ==
    {"a","b","c","d","e","f","g","h","i","j","k","l","m",
     "n","o","p","q","r","s","t","u","v","w","x","y","z",
     "A","B","C","D","E","F","G","H","I","J","K","L","M",
     "N","O","P","Q","R","S","T","U","V","W","X","Y","Z"}

Digits == {"0","1","2","3","4","5","6","7","8","9"}

\* the white space strings.TrimSpace removes (the ASCII part)
WhiteSpace == {" ", "\t", "\n", "\r"}

DigitChar == <<"0","1","2","3","4","5","6","7","8","9">>

\* fmt.Sprintf("%d", n)
RECURSIVE Itoa(_)
Itoa(n) ==
    IF n < 0 THEN <<"-">> \o Itoa(0 - n)
    ELSE IF n < 10 THEN <<DigitChar[n + 1]>>
    ELSE Itoa(n \div 10) \o <<DigitChar[(n % 10) + 1]>>

RECURSIVE TrimLeft(_)
TrimLeft(s) ==
    IF s # << >> /\ Head(s) \in WhiteSpace THEN TrimLeft(Tail(s)) ELSE s

RECURSIVE TrimRight(_)
TrimRight(s) ==
    IF s # << >> /\ s[Len(s)] \in WhiteSpace
    THEN TrimRight(SubSeq(s, 1, Len(s) - 1))
    ELSE s

TrimSpace(s) == TrimRight(TrimLeft(s))

\* the character class of validRepoName
RepoNameChars == Letters \cup Digits \cup {".", "_", "-"}

validRepoName_NoDot(s) ==
    /\ Len(s) >= 1
    /\ \A i \in 1..Len(s) : s[i] \in (RepoNameChars \ {"."})

validRepoName_AnyChars(s) == Len(s) >= 1

\* validRepoName.MatchString(s): ^[a-zA-Z0-9._-]+$
validRepoName(s) ==
    /\ Len(s) >= 1
    /\ \A i \in 1..Len(s) : s[i] \in RepoNameChars

----------------------------------------------------------------------------
(* Program constants *)

poppitPRListType == "slash-vibe-pr-list"
prSessionKeyTTL == 3600
prSessionKeyPrefix == <<"s","l","a","s","h","v","i","b","e","p","r","s",":">>
defaultPRLimit == 50
repoBlockID == "repo_block"
repoModalCallbackID == "select_pr_repo_modal"
prModalCallbackID == "select_pr_modal"
slashVibeIssueActionID == "SlashVibeIssue"
MaxOptionText == 75
KeptOptionText == 72
SlackLinerTTL == 86400

\* config.GitHubOrg
GitHubOrg == <<"a","c","m","e">>
\* config.SlackChannelID
SlackChannelID == <<"C","1">>

----------------------------------------------------------------------------
(* JSON texts, by their syntax tree *)

JAbsent == [t |-> "absent"]
JNull == [t |-> "null"]
JStr(s) == [t |-> "str", v |-> s]
JInt(n) == [t |-> "int", v |-> n]

\* a text that is empty (or only white space): json.Unmarshal reports a syntax error
JBlankDoc == [kind |-> "blank"]
\* a text that is not JSON
JGarbageDoc == [kind |-> "garbage"]
JNullDoc == [kind |-> "null"]
JScalarDoc == [kind |-> "scalar"]
JObjectDoc(repo) == [kind |-> "object", repo |-> repo]
JArrayDoc(elems) == [kind |-> "array", elems |-> elems]

\* one element of a `gh pr list --json` array
JPRObject(number, title, login, url, branch) ==
    [kind |-> "object", number |-> number, title |-> title,
     author |-> login, url |-> url, headRefName |-> branch]

\* decoding one JSON member into a Go int / string field:
\* an absent member or null leaves the zero value, a wrong type is an error
DecodeInt(v) ==
    CASE v.t = "int" -> [err |-> FALSE, v |-> v.v]
      [] v.t \in {"absent", "null"} -> [err |-> FALSE, v |-> 0]
      [] OTHER -> [err |-> TRUE, v |-> 0]

DecodeStr(v) ==
    CASE v.t = "str" -> [err |-> FALSE, v |-> v.v]
      [] v.t \in {"absent", "null"} -> [err |-> FALSE, v |-> << >>]
      [] OTHER -> [err |-> TRUE, v |-> << >>]

ZeroPRItem ==
    [Number |-> 0, Title |-> << >>, Login |-> << >>, URL |-> << >>,
     HeadRefName |-> << >>]

\* json.Unmarshal of one array element into a PRItem
DecodePRItem(e) ==
    CASE e.kind = "null" -> [err |-> FALSE, pr |-> ZeroPRItem]
      [] e.kind = "object" ->
           LET n == DecodeInt(e.number)
               t == DecodeStr(e.title)
               a == DecodeStr(e.author)
               u == DecodeStr(e.url)
               b == DecodeStr(e.headRefName)
           IN  [err |-> n.err \/ t.err \/ a.err \/ u.err \/ b.err,
                pr |-> [Number |-> n.v, Title |-> t.v, Login |-> a.v,
                        URL |-> u.v, HeadRefName |-> b.v]]
      [] OTHER -> [err |-> TRUE, pr |-> ZeroPRItem]

UnmarshalPRs_Lenient(doc) ==
    CASE doc.kind = "array" ->
           [err |-> \E i \in 1..Len(doc.elems) : DecodePRItem(doc.elems[i]).err,
            prs |-> [i \in 1..Len(doc.elems) |-> DecodePRItem(doc.elems[i]).pr]]
      [] OTHER -> [err |-> FALSE, prs |-> << >>]

\* json.Unmarshal(text, &prs) with prs []PRItem
UnmarshalPRs(doc) ==
    CASE doc.kind = "null" -> [err |-> FALSE, prs |-> << >>]
      [] doc.kind = "array" ->
           [err |-> \E i \in 1..Len(doc.elems) : DecodePRItem(doc.elems[i]).err,
            prs |-> [i \in 1..Len(doc.elems) |-> DecodePRItem(doc.elems[i]).pr]]
      [] OTHER -> [err |-> TRUE, prs |-> << >>]

MarshalPRs_NoBranch(prs) ==
    IF prs = << >> THEN JArrayDoc(<< >>)
    ELSE JArrayDoc([i \in 1..Len(prs) |->
            JPRObject(JInt(prs[i].Number), JStr(prs[i].Title),
                      JStr(prs[i].Login), JStr(prs[i].URL), JStr(<< >>))])

\* json.Marshal(prs)
MarshalPRs(prs) ==
    IF prs = << >> THEN JArrayDoc(<< >>)
    ELSE JArrayDoc([i \in 1..Len(prs) |->
            JPRObject(JInt(prs[i].Number), JStr(prs[i].Title),
                      JStr(prs[i].Login), JStr(prs[i].URL),
                      JStr(prs[i].HeadRefName))])

MarshalMeta_Empty(repo) == JObjectDoc(JStr(<< >>))

\* json.Marshal(PRModalPrivateMetadata{Repo: repo})
MarshalMeta(repo) == JObjectDoc(JStr(repo))

UnmarshalMeta_Lenient(doc) ==
    IF doc.kind = "object" /\ doc.repo.t = "str"
    THEN [err |-> FALSE, Repo |-> doc.repo.v]
    ELSE [err |-> FALSE, Repo |-> << >>]

\* json.Unmarshal(text, &meta) with meta PRModalPrivateMetadata
UnmarshalMeta(doc) ==
    CASE doc.kind = "null" -> [err |-> FALSE, Repo |-> << >>]
      [] doc.kind = "object" ->
           [err |-> DecodeStr(doc.repo).err, Repo |-> DecodeStr(doc.repo).v]
      [] OTHER -> [err |-> TRUE, Repo |-> << >>]

----------------------------------------------------------------------------
(* Modals *)

createRepoChooserModal ==
    [kind |-> "repo_chooser", callbackID |-> repoModalCallbackID,
     actionBlock |-> repoBlockID, actionID |-> slashVibeIssueActionID]

createLoadingModal == [kind |-> "loading"]

OptionText_Cut75(pr) ==
    LET text == <<"#">> \o Itoa(pr.Number) \o <<":", " ">> \o pr.Title
    IN  IF Len(text) > MaxOptionText
        THEN SubSeq(text, 1, MaxOptionText) \o <<".", ".", ".">>
        ELSE text

\* text := fmt.Sprintf("#%d: %s", pr.Number, pr.Title), cut to 72 bytes + "..."
OptionText(pr) ==
    LET text == <<"#">> \o Itoa(pr.Number) \o <<":", " ">> \o pr.Title
    IN  IF Len(text) > MaxOptionText
        THEN SubSeq(text, 1, KeptOptionText) \o <<".", ".", ".">>
        ELSE text

OptionValue(pr) == Itoa(pr.Number)

createPRChooserModal_Reversed(prs, repo, privateMetadata) ==
    [kind |-> "pr_chooser", callbackID |-> prModalCallbackID,
     privateMetadata |-> privateMetadata, header |-> repo,
     options |-> [i \in 1..Len(prs) |->
                    [text |-> OptionText(prs[Len(prs) + 1 - i]),
                     value |-> OptionValue(prs[Len(prs) + 1 - i])]]]

createPRChooserModal(prs, repo, privateMetadata) ==
    [kind |-> "pr_chooser", callbackID |-> prModalCallbackID,
     privateMetadata |-> privateMetadata, header |-> repo,
     options |-> [i \in 1..Len(prs) |->
                    [text |-> OptionText(prs[i]), value |-> OptionValue(prs[i])]]]

createErrorModal(message) == [kind |-> "error", message |-> message]

ParseFailedMessage ==
    [fmt |-> "Failed to parse the pull request list. Please try again.",
     args |-> << >>]

NoPRsMessage_NoRepo(repo) ==
    [fmt |-> "No open pull requests found for %s.", args |-> << >>]

\* fmt.Sprintf of the no-PRs format (the %s is wrapped in back quotes in the source)
NoPRsMessage(repo) ==
    [fmt |-> "No open pull requests found for %s.", args |-> <<repo>>]

----------------------------------------------------------------------------
(* Redis and Slack calls.  Every call a handler makes is logged, in order, *)
(* with its arguments and its outcome.                                     *)

NoKeys == [k \in {} |-> k]
PutKey_Only(f, k, v) == [x \in {k} |-> v]

PutKey_KeepFirst(f, k, v) ==
    IF k \in DOMAIN f THEN f
    ELSE [x \in (DOMAIN f) \cup {k} |-> IF x = k THEN v ELSE f[x]]

PutKey(f, k, v) == [x \in (DOMAIN f) \cup {k} |-> IF x = k THEN v ELSE f[x]]
DelKey_Others(f, k) == [x \in (DOMAIN f) \cap {k} |-> f[x]]

DelKey_Keep(f, k) == f

DelKey_Clear(f, k) == IF k \in DOMAIN f THEN [x \in (DOMAIN f) \ {k} |-> f[x]] ELSE NoKeys

DelKey(f, k) == [x \in (DOMAIN f) \ {k} |-> f[x]]

GetKey_AnySession(f, k) ==
    IF DOMAIN f = {} THEN [found |-> FALSE, val |-> JNullDoc]
    ELSE [found |-> TRUE, val |-> f[CHOOSE x \in DOMAIN f : TRUE].val]

GetKey_AlwaysFound(f, k) ==
    [found |-> TRUE, val |-> IF k \in DOMAIN f THEN f[k].val ELSE JNullDoc]

\* rdb.Get(ctx, k).Result() when Redis answers: redis.Nil for a missing key
GetKey(f, k) ==
    [found |-> k \in DOMAIN f, val |-> IF k \in DOMAIN f THEN f[k].val ELSE JNullDoc]

\* a handler returns, having made the calls cs and changed nothing in Redis
Return(cs) ==
    /\ calls' = cs
    /\ UNCHANGED <<sessions, poppitList, slackLinerList>>

OpenViewCall(token, modal, ok, viewID) ==
    [op |-> "OpenView", token |-> token, modal |-> modal, ok |-> ok,
     viewID |-> IF ok THEN viewID ELSE << >>]

PushViewCall_FirstToken(token, modal, ok, viewID) ==
    [op |-> "PushView", token |-> <<"T","1">>, modal |-> modal, ok |-> ok,
     viewID |-> IF ok THEN viewID ELSE << >>]

PushViewCall(token, modal, ok, viewID) ==
    [op |-> "PushView", token |-> token, modal |-> modal, ok |-> ok,
     viewID |-> IF ok THEN viewID ELSE << >>]

UpdateViewCall(modal, externalID, hash, viewID, ok) ==
    [op |-> "UpdateView", modal |-> modal, externalID |-> externalID,
     hash |-> hash, viewID |-> viewID, ok |-> ok]

RPushCall(list, payload, ok) ==
    [op |-> "RPush", list |-> list, payload |-> payload, ok |-> ok]

SetCall(key, val, ttl, ok) ==
    [op |-> "Set", key |-> key, val |-> val, ttl |-> ttl, ok |-> ok]

GetCall(key, found) == [op |-> "Get", key |-> key, found |-> found]

DelCall(key, ok) == [op |-> "Del", key |-> key, ok |-> ok]

SessionKey_Shared(viewID) == prSessionKeyPrefix

SessionKey(viewID) == prSessionKeyPrefix \o viewID

ViewIds == { <<"V">> \o Itoa(i) : i \in 1..NumViews }

----------------------------------------------------------------------------
(* sendPRListCommand *)

PRListCommandText(repo) ==
    [fmt |-> "gh pr list --repo %s --json number,title,author,url,headRefName --limit %d",
     args |-> <<repo, defaultPRLimit>>]

PoppitCommand_StaleView(repo, viewID, username) ==
    [repo |-> repo, branch |-> << >>, type |-> poppitPRListType,
     dir |-> "/tmp", commands |-> <<PRListCommandText(repo)>>,
     metadata |-> [view_id |-> <<"V","1">>, repo |-> repo, username |-> username]]

\* the PoppitCommand built by sendPRListCommand, as the JSON object pushed
PoppitCommand(repo, viewID, username) ==
    [repo |-> repo, branch |-> << >>, type |-> poppitPRListType,
     dir |-> "/tmp", commands |-> <<PRListCommandText(repo)>>,
     metadata |-> [view_id |-> viewID, repo |-> repo, username |-> username]]

sendPRListCommand_Retry(before, repo, viewID, username) ==
    LET payload == PoppitCommand(repo, viewID, username) IN
    \/ /\ poppitList' = Append(poppitList, payload)
       /\ calls' = Append(before, RPushCall("poppit", payload, TRUE))
       /\ UNCHANGED <<sessions, slackLinerList>>
    \/ \E again \in BOOLEAN :
          /\ poppitList' = IF again THEN Append(poppitList, payload) ELSE poppitList
          /\ calls' = before \o <<RPushCall("poppit", payload, FALSE),
                                  RPushCall("poppit", payload, again)>>
          /\ UNCHANGED <<sessions, slackLinerList>>

\* sendPRListCommand after the calls `before`; the RPush succeeds or fails
sendPRListCommand(before, repo, viewID, username) ==
    \E pushOk \in BOOLEAN :
       LET payload == PoppitCommand(repo, viewID, username) IN
       /\ poppitList' = IF pushOk THEN Append(poppitList, payload) ELSE poppitList
       /\ calls' = Append(before, RPushCall("poppit", payload, pushOk))
       /\ UNCHANGED <<sessions, slackLinerList>>

----------------------------------------------------------------------------
(* handleSlashCommand *)

IsPRCommand_Any(cmd) == TRUE

IsPRCommand(cmd) == cmd.command = "/pr"

RepoArg_NoTrim(cmd) == cmd.text

RepoArg(cmd) == TrimSpace(cmd.text)

RepoOf_NoOrg(name) == name

\* config.GitHubOrg + "/" + name
RepoOf(name) == GitHubOrg \o <<"/">> \o name

\* slackClient.OpenView fails, or succeeds and returns the id of the new view
handleSlashCommand(payload) ==
    IF payload.json # "ok" THEN Return(<< >>)
    ELSE IF ~IsPRCommand(payload) THEN Return(<< >>)
    ELSE LET repoArg == RepoArg(payload) IN
         IF repoArg # << >> THEN
            IF ~validRepoName(repoArg) THEN Return(<< >>)
            ELSE LET repo == RepoOf(repoArg) IN
                 \/ Return(<<OpenViewCall(payload.trigger_id, createLoadingModal,
                                          FALSE, << >>)>>)
                 \/ \E v \in ViewIds :
                       sendPRListCommand(
                           <<OpenViewCall(payload.trigger_id, createLoadingModal,
                                          TRUE, v)>>,
                           repo, v, payload.user_name)
         ELSE \/ Return(<<OpenViewCall(payload.trigger_id, createRepoChooserModal,
                                       FALSE, << >>)>>)
              \/ \E v \in ViewIds :
                    Return(<<OpenViewCall(payload.trigger_id, createRepoChooserModal,
                                          TRUE, v)>>)

----------------------------------------------------------------------------
(* handleBlockAction *)

handleBlockAction_AnyBlock(payload) ==
    IF payload.json # "ok" THEN Return(<< >>)
    ELSE IF Len(payload.actions) = 0 THEN Return(<< >>)
    ELSE LET first == payload.actions[1] IN
         IF first.action_id # slashVibeIssueActionID THEN Return(<< >>)
         ELSE LET repoName == first.value IN
              IF repoName = << >> THEN Return(<< >>)
              ELSE LET repo == RepoOf(repoName) IN
                   \/ Return(<<PushViewCall(payload.trigger_id, createLoadingModal,
                                            FALSE, << >>)>>)
                   \/ \E v \in ViewIds :
                         sendPRListCommand(
                             <<PushViewCall(payload.trigger_id, createLoadingModal,
                                            TRUE, v)>>,
                             repo, v, payload.username)

handleBlockAction(payload) ==
    IF payload.json # "ok" THEN Return(<< >>)
    ELSE IF Len(payload.actions) = 0 THEN Return(<< >>)
    ELSE LET first == payload.actions[1] IN
         IF first.action_id # slashVibeIssueActionID THEN Return(<< >>)
         ELSE IF first.block_id # repoBlockID THEN Return(<< >>)
         ELSE LET repoName == first.value IN
              IF repoName = << >> THEN Return(<< >>)
              ELSE LET repo == RepoOf(repoName) IN
                   \/ Return(<<PushViewCall(payload.trigger_id, createLoadingModal,
                                            FALSE, << >>)>>)
                   \/ \E v \in ViewIds :
                         sendPRListCommand(
                             <<PushViewCall(payload.trigger_id, createLoadingModal,
                                            TRUE, v)>>,
                             repo, v, payload.username)

----------------------------------------------------------------------------
(* handlePoppitOutput *)

IsPRListOutput_Any(output) == TRUE

IsPRListOutput(output) == output.type = poppitPRListType

MetaString_Stringify(v) ==
    IF v.t = "str" THEN v.v ELSE IF v.t = "int" THEN Itoa(v.v) ELSE << >>

\* v, _ := metadata[name].(string)
MetaString(v) == IF v.t = "str" THEN v.v ELSE << >>

updateModalWithErrorByID_Hashed(viewID, message) ==
    \E ok \in BOOLEAN :
       Return(<<UpdateViewCall(createErrorModal(message), << >>, <<"h","1">>, viewID, ok)>>)

updateModalWithErrorByID_Silent(viewID, message) == Return(<< >>)

\* the UpdateView succeeds or fails; either way the handler goes on
updateModalWithErrorByID(viewID, message) ==
    \E ok \in BOOLEAN :
       Return(<<UpdateViewCall(createErrorModal(message), << >>, << >>, viewID, ok)>>)

handlePoppitOutput_UpdateFirst(payload) ==
    IF payload.json # "ok" THEN Return(<< >>)
    ELSE IF ~IsPRListOutput(payload) THEN Return(<< >>)
    ELSE IF ~payload.metadata.present THEN Return(<< >>)
    ELSE LET viewID == MetaString(payload.metadata.view_id)
             repo == MetaString(payload.metadata.repo)
             username == MetaString(payload.metadata.username)
         IN
         IF viewID = << >> \/ repo = << >> THEN Return(<< >>)
         ELSE LET parsed == UnmarshalPRs(payload.output) IN
              IF parsed.err
              THEN updateModalWithErrorByID(viewID, ParseFailedMessage)
              ELSE IF Len(parsed.prs) = 0
              THEN updateModalWithErrorByID(viewID, NoPRsMessage(repo))
              ELSE LET prJSON == MarshalPRs(parsed.prs)
                       sessionKey == SessionKey(viewID)
                       metaJSON == MarshalMeta(repo)
                       prModal == createPRChooserModal(parsed.prs, repo, metaJSON)
                   IN  \/ Return(<<UpdateViewCall(prModal, << >>, << >>, viewID, FALSE)>>)
                       \/ Return(<<UpdateViewCall(prModal, << >>, << >>, viewID, TRUE),
                                   SetCall(sessionKey, prJSON, prSessionKeyTTL, FALSE)>>)
                       \/ /\ sessions' = PutKey(sessions, sessionKey,
                                                [val |-> prJSON,
                                                 ttl |-> prSessionKeyTTL])
                          /\ calls' = <<UpdateViewCall(prModal, << >>, << >>,
                                                       viewID, TRUE),
                                        SetCall(sessionKey, prJSON,
                                                prSessionKeyTTL, TRUE)>>
                          /\ UNCHANGED <<poppitList, slackLinerList>>

handlePoppitOutput_UpdateAnyway(payload) ==
    IF payload.json # "ok" THEN Return(<< >>)
    ELSE IF ~IsPRListOutput(payload) THEN Return(<< >>)
    ELSE IF ~payload.metadata.present THEN Return(<< >>)
    ELSE LET viewID == MetaString(payload.metadata.view_id)
             repo == MetaString(payload.metadata.repo)
             username == MetaString(payload.metadata.username)
         IN
         IF viewID = << >> \/ repo = << >> THEN Return(<< >>)
         ELSE LET parsed == UnmarshalPRs(payload.output) IN
              IF parsed.err
              THEN updateModalWithErrorByID(viewID, ParseFailedMessage)
              ELSE IF Len(parsed.prs) = 0
              THEN updateModalWithErrorByID(viewID, NoPRsMessage(repo))
              ELSE LET prJSON == MarshalPRs(parsed.prs)
                       sessionKey == SessionKey(viewID)
                       metaJSON == MarshalMeta(repo)
                       prModal == createPRChooserModal(parsed.prs, repo, metaJSON)
                   IN  \/ \E ok \in BOOLEAN :
                             Return(<<SetCall(sessionKey, prJSON, prSessionKeyTTL, FALSE),
                                      UpdateViewCall(prModal, << >>, << >>, viewID, ok)>>)
                       \/ \E ok \in BOOLEAN :
                             /\ sessions' = PutKey(sessions, sessionKey,
                                                   [val |-> prJSON,
                                                    ttl |-> prSessionKeyTTL])
                             /\ calls' = <<SetCall(sessionKey, prJSON,
                                                   prSessionKeyTTL, TRUE),
                                           UpdateViewCall(prModal, << >>, << >>,
                                                          viewID, ok)>>
                             /\ UNCHANGED <<poppitList, slackLinerList>>

handlePoppitOutput(payload) ==
    IF payload.json # "ok" THEN Return(<< >>)
    ELSE IF ~IsPRListOutput(payload) THEN Return(<< >>)
    ELSE IF ~payload.metadata.present THEN Return(<< >>)
    ELSE LET viewID == MetaString(payload.metadata.view_id)
             repo == MetaString(payload.metadata.repo)
             username == MetaString(payload.metadata.username)
         IN
         IF viewID = << >> \/ repo = << >> THEN Return(<< >>)
         ELSE LET parsed == UnmarshalPRs(payload.output) IN
              IF parsed.err
              THEN updateModalWithErrorByID(viewID, ParseFailedMessage)
              ELSE IF Len(parsed.prs) = 0
              THEN updateModalWithErrorByID(viewID, NoPRsMessage(repo))
              ELSE LET prJSON == MarshalPRs(parsed.prs)
                       sessionKey == SessionKey(viewID)
                       metaJSON == MarshalMeta(repo)
                       prModal == createPRChooserModal(parsed.prs, repo, metaJSON)
                   IN  \/ Return(<<SetCall(sessionKey, prJSON, prSessionKeyTTL, FALSE)>>)
                       \/ \E ok \in BOOLEAN :
                             /\ sessions' = PutKey(sessions, sessionKey,
                                                   [val |-> prJSON,
                                                    ttl |-> prSessionKeyTTL])
                             /\ calls' = <<SetCall(sessionKey, prJSON,
                                                   prSessionKeyTTL, TRUE),
                                           UpdateViewCall(prModal, << >>, << >>,
                                                          viewID, ok)>>
                             /\ UNCHANGED <<poppitList, slackLinerList>>

----------------------------------------------------------------------------
(* handleViewSubmission, handlePRSelection, postPRToSlack *)

extractTextValue_PlainFirst(values, blockID, actionID) ==
    IF blockID \notin DOMAIN values THEN << >>
    ELSE LET block == values[blockID] IN
         IF actionID \notin DOMAIN block THEN << >>
         ELSE LET action == block[actionID] IN
              IF action.t # "object" THEN << >>
              ELSE IF action.value.t = "str" THEN action.value.v
                   ELSE IF action.selected_option.t = "object"
                           /\ action.selected_option.value.t = "str"
                        THEN action.selected_option.value.v
                        ELSE << >>

\* a field of view.state.values is [t |-> "object", selected_option, value]
\* or a JSON value that is not an object
extractTextValue(values, blockID, actionID) ==
    IF blockID \notin DOMAIN values THEN << >>
    ELSE LET block == values[blockID] IN
         IF actionID \notin DOMAIN block THEN << >>
         ELSE LET action == block[actionID] IN
              IF action.t # "object" THEN << >>
              ELSE IF action.selected_option.t = "object"
                      /\ action.selected_option.value.t = "str"
                   THEN action.selected_option.value.v
                   ELSE IF action.value.t = "str" THEN action.value.v
                   ELSE << >>

\* the index of the first PR whose number prints as prNumber, 0 if none
SelectedPR(prs, prNumber) ==
    LET hits == {i \in 1..Len(prs) : Itoa(prs[i].Number) = prNumber}
    IN  IF hits = {} THEN 0
        ELSE CHOOSE i \in hits : \A j \in hits : i <= j

SlackLinerMessage_NoBranch(pr, repo, postedBy) ==
    [channel |-> SlackChannelID,
     text |-> [fmt |-> "Pull Request shared by @%s / Repository: %s / PR #%d: %s / Author: %s / Link: <%s|View PR>",
               args |-> <<postedBy, repo, pr.Number, pr.Title, pr.Login, pr.URL>>],
     ttl |-> SlackLinerTTL,
     metadata |-> [event_type |-> "pr_posted",
                   event_payload |->
                      [pr_number |-> pr.Number, repository |-> repo,
                       pr_url |-> pr.URL, author |-> pr.Login,
                       title |-> pr.Title, posted_by |-> postedBy,
                       branch |-> << >>]]]

\* the SlackLinerMessage built by postPRToSlack, as the JSON object pushed
SlackLinerMessage(pr, repo, postedBy) ==
    [channel |-> SlackChannelID,
     text |-> [fmt |-> "Pull Request shared by @%s / Repository: %s / PR #%d: %s / Author: %s / Link: <%s|View PR>",
               args |-> <<postedBy, repo, pr.Number, pr.Title, pr.Login, pr.URL>>],
     ttl |-> SlackLinerTTL,
     metadata |-> [event_type |-> "pr_posted",
                   event_payload |->
                      [pr_number |-> pr.Number, repository |-> repo,
                       pr_url |-> pr.URL, author |-> pr.Login,
                       title |-> pr.Title, posted_by |-> postedBy,
                       branch |-> pr.HeadRefName]]]

postPRToSlack_DeleteAnyway(before, pr, repo, postedBy, sessionKey) ==
    LET msg == SlackLinerMessage(pr, repo, postedBy) IN
    \/ /\ sessions' = DelKey(sessions, sessionKey)
       /\ calls' = before \o <<RPushCall("slackliner", msg, FALSE),
                               DelCall(sessionKey, TRUE)>>
       /\ UNCHANGED <<poppitList, slackLinerList>>
    \/ \E delOk \in BOOLEAN :
          /\ slackLinerList' = Append(slackLinerList, msg)
          /\ sessions' = IF delOk THEN DelKey(sessions, sessionKey) ELSE sessions
          /\ calls' = before \o <<RPushCall("slackliner", msg, TRUE),
                                  DelCall(sessionKey, delOk)>>
          /\ UNCHANGED poppitList

\* postPRToSlack and what handlePRSelection does after it: the RPush fails,
\* or it succeeds and the Del succeeds or fails
postPRToSlack(before, pr, repo, postedBy, sessionKey) ==
    LET msg == SlackLinerMessage(pr, repo, postedBy) IN
    \/ Return(Append(before, RPushCall("slackliner", msg, FALSE)))
    \/ \E delOk \in BOOLEAN :
          /\ slackLinerList' = Append(slackLinerList, msg)
          /\ sessions' = IF delOk THEN DelKey(sessions, sessionKey) ELSE sessions
          /\ calls' = before \o <<RPushCall("slackliner", msg, TRUE),
                                  DelCall(sessionKey, delOk)>>
          /\ UNCHANGED poppitList

\* the Get fails (Redis unreachable, or no such key) or returns the value
handlePRSelection(submission) ==
    LET prNumber == extractTextValue(submission.values, "pr_block", "pr_select") IN
    IF prNumber = << >> THEN Return(<< >>)
    ELSE LET sessionKey == SessionKey(submission.view_id) IN
         \/ Return(<<GetCall(sessionKey, FALSE)>>)
         \/ /\ GetKey(sessions, sessionKey).found
            /\ LET get == GetCall(sessionKey, TRUE)
                   parsed == UnmarshalPRs(GetKey(sessions, sessionKey).val)
                   meta == UnmarshalMeta(submission.private_metadata)
                   sel == SelectedPR(parsed.prs, prNumber)
               IN  IF parsed.err \/ meta.err \/ sel = 0
                   THEN Return(<<get>>)
                   ELSE postPRToSlack(<<get>>, parsed.prs[sel], meta.Repo,
                                      submission.username, sessionKey)

IsPRModalSubmission_Any(submission) == TRUE

IsPRModalSubmission(submission) == submission.callback_id = prModalCallbackID

handleViewSubmission_ErrorOnDecode(payload) ==
    IF payload.json # "ok"
    THEN updateModalWithErrorByID(<<"V","1">>, ParseFailedMessage)
    ELSE IF IsPRModalSubmission(payload) THEN handlePRSelection(payload)
    ELSE Return(<< >>)

handleViewSubmission(payload) ==
    IF payload.json # "ok" THEN Return(<< >>)
    ELSE IF IsPRModalSubmission(payload) THEN handlePRSelection(payload)
    ELSE Return(<< >>)

----------------------------------------------------------------------------
(* Payloads the channels deliver *)

Triggers == { <<"T","1">>, <<"T","2">> }
Users == { <<"a","l","i","c","e">> }

Name_svc == <<"s","v","c">>
Name_web == <<"w","e","b">>

BadJSON == [json |-> "bad"]

SlashCommand(command, text, trigger, user) ==
    [json |-> "ok", command |-> command, text |-> text,
     trigger_id |-> trigger, user_name |-> user]

SlashTexts ==
    { << >>, <<"\t", " ">>, Name_svc, <<" ">> \o Name_web \o <<"\t">>,
      <<"a", "/", "b">>, <<"a", " ", "b">> }

SlashPayloads ==
    {BadJSON}
    \cup { SlashCommand("/pr", x, t, u) : x \in SlashTexts, t \in Triggers, u \in Users }
    \cup { SlashCommand(c, Name_svc, <<"T","1">>, u) : c \in {"/issue", ""}, u \in Users }

PR7 == JPRObject(JInt(7), JStr(<<"F","i","x">>), JStr(<<"b","o","b">>),
                 JStr(<<"u","7">>), JStr(<<"f","7">>))
PR8 == JPRObject(JInt(8), JStr(<<"A","d","d">>), JStr(<<"e","v","e">>),
                 JStr(<<"u","8">>), JStr(<<"f","8">>))
\* a second element with number 7
PR7dup == JPRObject(JInt(7), JStr(<<"D","u","p">>), JStr(<<"e","v","e">>),
                    JStr(<<"u","9">>), JStr(<<"f","9">>))
\* an element whose option text is longer than Slack allows
PRLong == JPRObject(JInt(120), JStr([i \in 1..80 |-> "x"]), JStr(<<"b","o","b">>),
                    JStr(<<"u","1">>), JStr(<<"f","1">>))
\* an element without a number member
PRNoNumber == JPRObject(JAbsent, JStr(<<"N","o">>), JAbsent, JAbsent, JNull)
\* an element whose number is a JSON string
PRBadNumber == JPRObject(JStr(<<"7">>), JStr(<<"F","i","x">>), JAbsent, JAbsent, JAbsent)

Outputs ==
    { JBlankDoc, JGarbageDoc, JObjectDoc(JAbsent), JNullDoc, JArrayDoc(<< >>),
      JArrayDoc(<<PR7>>), JArrayDoc(<<PR8, PR7>>), JArrayDoc(<<PR7, PR7dup>>),
      JArrayDoc(<<PRNoNumber>>), JArrayDoc(<<PR7, PRBadNumber>>),
      JArrayDoc(<<PRLong>>) }

Repos == { RepoOf(Name_svc), RepoOf(Name_web) }

NoMetadata == [present |-> FALSE]
Metadata(viewID, repo, username) ==
    [present |-> TRUE, view_id |-> viewID, repo |-> repo, username |-> username]

PoppitOutput(type, metadata, output) ==
    [json |-> "ok", type |-> type, metadata |-> metadata, output |-> output]

GoodMetadata ==
    { Metadata(JStr(v), JStr(r), JStr(u)) : v \in ViewIds, r \in Repos, u \in Users }

BrokenMetadata ==
    {NoMetadata}
    \cup { Metadata(v, JStr(RepoOf(Name_svc)), JAbsent) :
             v \in {JAbsent, JInt(1), JStr(<< >>)} }
    \cup { Metadata(JStr(<<"V","1">>), r, JAbsent) : r \in {JAbsent, JStr(<< >>)} }

PoppitPayloads ==
    {BadJSON}
    \cup { PoppitOutput(poppitPRListType, m, x) : m \in GoodMetadata, x \in Outputs }
    \cup { PoppitOutput(poppitPRListType, m, JArrayDoc(<<PR7>>)) : m \in BrokenMetadata }
    \cup { PoppitOutput(t, Metadata(JStr(<<"V","1">>), JStr(RepoOf(Name_svc)), JAbsent),
                         JArrayDoc(<<PR7>>)) : t \in {"slash-vibe-issue-list", ""} }

SelectField(sel, value) == [t |-> "object", selected_option |-> sel, value |-> value]
Selected(s) == SelectField([t |-> "object", value |-> JStr(s)], JAbsent)

Values(blockID, actionID, field) == (blockID :> (actionID :> field))

SubmissionValues ==
    { Values("pr_block", "pr_select", Selected(s)) :
        s \in {<<"7">>, <<"8">>, <<"0","7">>, << >>} }
    \cup { Values("repo_block", "pr_select", Selected(<<"7">>)) }

PrivateMetadatas ==
    { MarshalMeta(r) : r \in Repos } \cup { JBlankDoc, JNullDoc, JObjectDoc(JInt(1)) }

ViewSubmission(callbackID, viewID, privateMetadata, values, user) ==
    [json |-> "ok", callback_id |-> callbackID, view_id |-> viewID,
     private_metadata |-> privateMetadata, values |-> values, username |-> user]

SubmissionPayloads ==
    {BadJSON}
    \cup { ViewSubmission(prModalCallbackID, v, m, x, u) :
             v \in ViewIds, m \in PrivateMetadatas, x \in SubmissionValues, u \in Users }
    \cup { ViewSubmission(c, v, MarshalMeta(RepoOf(Name_svc)),
                          Values("pr_block", "pr_select", Selected(<<"7">>)), u) :
             c \in {repoModalCallbackID, ""}, v \in {<<"V","1">>}, u \in Users }

BlockAction(actionID, blockID, value) ==
    [action_id |-> actionID, block_id |-> blockID, value |-> value]

BlockActionPayload(actions, trigger, user) ==
    [json |-> "ok", actions |-> actions, trigger_id |-> trigger, username |-> user]

BlockActionLists ==
    { << >> }
    \cup { <<BlockAction(slashVibeIssueActionID, repoBlockID, x)>> :
             x \in {Name_svc, << >>, <<"a", "/", "b">>} }
    \cup { <<BlockAction("other_action", repoBlockID, Name_svc)>>,
           <<BlockAction(slashVibeIssueActionID, "other_block", Name_svc)>>,
           <<BlockAction("other_action", repoBlockID, Name_svc),
             BlockAction(slashVibeIssueActionID, repoBlockID, Name_svc)>> }

BlockPayloads ==
    {BadJSON}
    \cup { BlockActionPayload(a, t, u) : a \in BlockActionLists, t \in Triggers, u \in Users }

----------------------------------------------------------------------------
(* The handlers as actions *)

\* go subscribeToSlashCommands, go subscribeToViewSubmissions,
\* go subscribeToPoppitOutput
Subscribers == {"slash", "submission", "output"}

Init ==
    /\ sessions = NoKeys
    /\ poppitList = << >>
    /\ slackLinerList = << >>
    /\ handled = 0
    /\ ev = [kind |-> "init"]
    /\ calls = << >>
    /\ ctx = "live"
    /\ inbox = [c \in Subscribers |-> << >>]
    /\ loop = [c \in Subscribers |-> [pc |-> "select", last |-> "none"]]
    /\ running = [c \in Subscribers |-> << >>]

Received(kind, payload) ==
    /\ handled' = handled + 1
    /\ ev' = [kind |-> kind, payload |-> payload]
    /\ UNCHANGED loopVars

SlashCommandEvent ==
    /\ handled < MaxEvents
    /\ \E payload \in SlashPayloads :
          Received("slash", payload) /\ handleSlashCommand(payload)

ViewSubmissionEvent ==
    /\ handled < MaxEvents
    /\ \E payload \in SubmissionPayloads :
          Received("submission", payload) /\ handleViewSubmission(payload)

BlockActionEvent ==
    /\ handled < MaxEvents
    /\ \E payload \in BlockPayloads :
          Received("block", payload) /\ handleBlockAction(payload)

PoppitOutputEvent ==
    /\ handled < MaxEvents
    /\ \E payload \in PoppitPayloads :
          Received("output", payload) /\ handlePoppitOutput(payload)

\* Redis drops a session key when its TTL has run out
SessionExpires ==
    /\ \E k \in DOMAIN sessions :
          /\ sessions' = DelKey(sessions, k)
          /\ ev' = [kind |-> "expire", key |-> k]
    /\ calls' = << >>
    /\ UNCHANGED <<poppitList, slackLinerList, handled>>
    /\ UNCHANGED loopVars

Next ==
    \/ SlashCommandEvent
    \/ ViewSubmissionEvent
    \/ BlockActionEvent
    \/ PoppitOutputEvent
    \/ SessionExpires

Spec == Init /\ [][Next]_vars

----------------------------------------------------------------------------
(* The running service: the subscribers main starts *)

\* a block action published on the block-actions channel: Redis hands it to
\* the subscriber of that channel if the service has one, else it is lost
BlockActionPublished ==
    /\ handled < MaxEvents
    /\ \E payload \in BlockPayloads :
          /\ Received("block", payload)
          /\ IF "block" \in Subscribers
             THEN handleBlockAction(payload)
             ELSE Return(<< >>)

NextMain ==
    \/ SlashCommandEvent
    \/ ViewSubmissionEvent
    \/ PoppitOutputEvent
    \/ BlockActionPublished
    \/ SessionExpires

SpecMain == Init /\ [][NextMain]_vars

----------------------------------------------------------------------------
(* The session store calls of the handlers, one call per step; calls keeps *)
(* the calls made so far.                                                  *)

StoredLists == { <<DecodePRItem(PR7).pr>>, <<DecodePRItem(PR8).pr, DecodePRItem(PR7).pr>> }

StoreStep(call) ==
    /\ Len(calls) < MaxStoreOps
    /\ calls' = Append(calls, call)
    /\ ev' = [kind |-> "store"]
    /\ UNCHANGED <<poppitList, slackLinerList, handled>>
    /\ UNCHANGED loopVars

\* rdb.Set(ctx, sessionKey, prJSON, prSessionKeyTTL) in handlePoppitOutput
StoreSet ==
    \E v \in ViewIds, prs \in StoredLists, ok \in BOOLEAN :
       LET key == SessionKey(v)
           val == MarshalPRs(prs)
       IN  /\ StoreStep(SetCall(key, val, prSessionKeyTTL, ok))
           /\ sessions' = IF ok
                           THEN PutKey(sessions, key, [val |-> val, ttl |-> prSessionKeyTTL])
                           ELSE sessions

\* rdb.Get(ctx, sessionKey) in handlePRSelection: an error, or Redis answers
StoreGet ==
    \E v \in ViewIds :
       LET key == SessionKey(v) IN
       /\ \/ StoreStep(GetCall(key, FALSE))
          \/ StoreStep(GetCall(key, GetKey(sessions, key).found))
       /\ UNCHANGED sessions

\* rdb.Del(ctx, sessionKey) in handlePRSelection
StoreDel ==
    \E v \in ViewIds, ok \in BOOLEAN :
       LET key == SessionKey(v) IN
       /\ StoreStep(DelCall(key, ok))
       /\ sessions' = IF ok THEN DelKey(sessions, key) ELSE sessions

NextStore == StoreSet \/ StoreGet \/ StoreDel

SpecStore == Init /\ [][NextStore]_vars

----------------------------------------------------------------------------
(* handleSlashCommand over every short command text *)

ArgAlphabet == {"a", "Z", "7", ".", "-", "_", " ", "/", ";"}

ArgStrings == UNION { [1..n -> ArgAlphabet] : n \in 0..MaxArgLen }

SlashArgEvent ==
    /\ handled = 0
    /\ \E x \in ArgStrings, t \in Triggers, u \in Users :
          LET payload == SlashCommand("/pr", x, t, u)
          IN  Received("slash", payload) /\ handleSlashCommand(payload)

NextArgs == SlashArgEvent

SpecArgs == Init /\ [][NextArgs]_vars

----------------------------------------------------------------------------
(* The subscribers as concurrent tasks.  A message is what its handler     *)
(* makes of it: "malformed" (json.Unmarshal fails), "invalid" (decoded,    *)
(* then dropped by a check) or "valid" (the handler goes through its       *)
(* calls).  A handler call in progress is [msg, next]: next = 0 before the *)
(* payload is decoded, else the index in Plan of the call to make next.    *)

Classes == {"malformed", "invalid", "valid"}

\* the calls that take ctx (go-redis); the Slack calls do not
BusOps == {"Get", "Set", "RPush", "Del"}

\* the calls of a handler on its longest path
Plan(c) ==
    CASE c = "slash" -> <<"OpenView", "RPush">>
      [] c = "submission" -> <<"Get", "RPush", "Del">>
      [] c = "output" -> <<"Set", "UpdateView">>

Pending ==
    Len(inbox["slash"]) + Len(inbox["submission"]) + Len(inbox["output"])

LoopQuiet == UNCHANGED <<sessions, poppitList, slackLinerList, ev, calls>>

\* Redis delivers a message to the subscription of channel c
Publish(c) ==
    /\ ctx # "exited" /\ loop[c].pc = "select"
    /\ handled + Pending < MaxPublished
    /\ \E m \in Classes : inbox' = [inbox EXCEPT ![c] = Append(@, m)]
    /\ UNCHANGED <<ctx, loop, running, handled>>
    /\ LoopQuiet

LoopFree_Async(c) == TRUE

LoopFree_Global(c) == \A d \in Subscribers : running[d] = << >>

\* the handler is called, not spawned: the loop is back at its select only
\* when the call has returned
LoopFree(c) == running[c] = << >>

\* msg := <-ch
NextMessage(q) == Head(q)

\* case msg := <-ch: handleX(ctx, rdb, slackClient, msg.Payload, config)
Dispatch(c) ==
    /\ ctx # "exited" /\ loop[c].pc = "select" /\ LoopFree(c)
    /\ inbox[c] # << >>
    /\ running' = [running EXCEPT ![c] = Append(@, [msg |-> NextMessage(inbox[c]),
                                                     next |-> 0])]
    /\ inbox' = [inbox EXCEPT ![c] = Tail(@)]
    /\ handled' = handled + 1
    /\ UNCHANGED <<ctx, loop>>
    /\ LoopQuiet

\* case <-ctx.Done(): return
LoopReturn(c) ==
    /\ ctx = "cancelled" /\ loop[c].pc = "select" /\ LoopFree(c)
    /\ loop' = [loop EXCEPT ![c].pc = "returned"]
    /\ UNCHANGED <<ctx, inbox, running, handled>>
    /\ LoopQuiet

AfterHandler_StopOnError(outcome) == IF outcome = "ok" THEN "select" ELSE "returned"

\* a handler returns nothing: whatever happened, the loop goes round
AfterHandler(outcome) == "select"

RemoveAt(q, i) == SubSeq(q, 1, i - 1) \o SubSeq(q, i + 1, Len(q))

\* the handler call i of subscriber c returns
Finish(c, i, outcome) ==
    /\ running' = [running EXCEPT ![c] = RemoveAt(@, i)]
    /\ loop' = [loop EXCEPT ![c] = [pc |-> AfterHandler(outcome), last |-> outcome]]

\* json.Unmarshal of the payload and the checks before the first call
Decode(c) ==
    /\ ctx # "exited"
    /\ \E i \in 1..Len(running[c]) :
          /\ running[c][i].next = 0
          /\ IF running[c][i].msg = "valid"
             THEN running' = [running EXCEPT ![c][i].next = 1] /\ UNCHANGED loop
             ELSE Finish(c, i, "dropped")
    /\ UNCHANGED <<ctx, inbox, handled>>
    /\ LoopQuiet

\* what a call can give: a Redis call made with a cancelled ctx returns
\* context.Canceled
Outcomes(op) ==
    IF op \in BusOps /\ ctx = "cancelled" THEN {"canceled"} ELSE {"ok", "failed"}

\* the next call of a handler: on an error the handler logs it and returns
Call(c) ==
    /\ ctx # "exited"
    /\ \E i \in 1..Len(running[c]) :
          LET h == running[c][i] IN
          /\ h.next >= 1
          /\ \E outcome \in Outcomes(Plan(c)[h.next]) :
                IF outcome = "ok" /\ h.next < Len(Plan(c))
                THEN running' = [running EXCEPT ![c][i].next = h.next + 1]
                     /\ UNCHANGED loop
                ELSE Finish(c, i, outcome)
    /\ UNCHANGED <<ctx, inbox, handled>>
    /\ LoopQuiet

\* <-sigChan; cancel()
Cancel ==
    /\ ctx = "live" /\ ctx' = "cancelled"
    /\ UNCHANGED <<inbox, loop, running, handled>>
    /\ LoopQuiet

\* time.Sleep(1 * time.Second), then main returns and the process is gone
Exit ==
    /\ ctx = "cancelled" /\ ctx' = "exited"
    /\ UNCHANGED <<inbox, loop, running, handled>>
    /\ LoopQuiet

NextLoop ==
    \/ \E c \in Subscribers : Publish(c)
    \/ \E c \in Subscribers : Dispatch(c)
    \/ \E c \in Subscribers : Decode(c)
    \/ \E c \in Subscribers : Call(c)
    \/ \E c \in Subscribers : LoopReturn(c)
    \/ Cancel
    \/ Exit

SpecLoop == Init /\ [][NextLoop]_vars

----------------------------------------------------------------------------
(* createPRChooserModal over candidate lists with titles of every length *)

\* a title of n bytes, no two neighbours alike
TitleOfLen(n) == [i \in 1..n |-> DigitChar[(i % 10) + 1]]

RenderedPR(number, n) ==
    [Number |-> number, Title |-> TitleOfLen(n), Login |-> <<"b","o","b">>,
     URL |-> <<"u">>, HeadRefName |-> <<"f">>]

RenderedLists ==
    { <<RenderedPR(number, n)>> : number \in {0, 7, 120}, n \in 0..MaxTitleLen }
    \cup { << >>,
           <<RenderedPR(8, 3), RenderedPR(7, MaxTitleLen)>>,
           <<RenderedPR(7, MaxTitleLen), RenderedPR(120, 2), RenderedPR(8, 0)>> }

\* prModal := createPRChooserModal(prs, repo, string(metaJSON)) and the
\* UpdateView that shows it
RenderOptions ==
    /\ handled = 0 /\ handled' = 1
    /\ \E prs \in RenderedLists, repo \in Repos :
          /\ ev' = [kind |-> "render", prs |-> prs, repo |-> repo]
          /\ calls' = <<UpdateViewCall(createPRChooserModal(prs, repo, MarshalMeta(repo)),
                                       << >>, << >>, <<"V","1">>, TRUE)>>
    /\ UNCHANGED <<sessions, poppitList, slackLinerList>>
    /\ UNCHANGED loopVars

NextOptions == RenderOptions

SpecOptions == Init /\ [][NextOptions]_vars

----------------------------------------------------------------------------
(* extractTextValue over the shapes a field of view.state.values can take *)

ScalarValues == {JAbsent, JNull, JInt(7), JStr(<<"7">>), JStr(<< >>)}

PlainValues == {JAbsent, JNull, JInt(9), JStr(<<"9">>), JStr(<< >>)}

SelectedOptions ==
    {JAbsent, JNull, JStr(<<"7">>)}
    \cup { [t |-> "object", value |-> x] : x \in ScalarValues }

Fields ==
    {JNull, JInt(7), JStr(<<"7">>)}
    \cup { SelectField(sel, x) : sel \in SelectedOptions, x \in PlainValues }

StateValues ==
    { << >>, Values("pr_block", "other_action", Selected(<<"7">>)) @@ Values("other_block", "pr_select", Selected(<<"7">>)) }
    \cup { Values(b, a, f) : b \in {"pr_block", "other_block"},
                             a \in {"pr_select", "other_action"}, f \in Fields }
    \cup { ("pr_block" :> << >>) }

\* prNumber := extractTextValue(submission.View.State.Values, "pr_block", "pr_select")
ExtractValue ==
    /\ handled = 0 /\ handled' = 1
    /\ \E values \in StateValues :
          ev' = [kind |-> "extract", values |-> values,
                 result |-> extractTextValue(values, "pr_block", "pr_select")]
    /\ UNCHANGED <<sessions, poppitList, slackLinerList, calls>>
    /\ UNCHANGED loopVars

NextExtract == ExtractValue

SpecExtract == Init /\ [][NextExtract]_vars

----------------------------------------------------------------------------
(* Sessions over several results and submissions: subscribeToPoppitOutput   *)
(* and subscribeToViewSubmissions deliver non-empty results and selection   *)
(* submissions for the same view ids, submissions repeated.  The event      *)
(* carries, for each view id, what has happened since the last successful   *)
(* write of its session: the notifications enqueued and whether a delete    *)
(* after one of them failed.                                                *)

SessionResults ==
    { PoppitOutput(poppitPRListType, Metadata(JStr(v), JStr(RepoOf(Name_svc)), JStr(u)),
                   JArrayDoc(x)) :
        v \in ViewIds, u \in Users, x \in {<<PR7>>, <<PR7dup>>, <<PR8, PR7>>} }

SessionSubmissions ==
    { ViewSubmission(prModalCallbackID, v, MarshalMeta(RepoOf(Name_svc)),
                     Values("pr_block", "pr_select", Selected(s)), u) :
        v \in ViewIds, s \in {<<"7">>, <<"8">>}, u \in Users }

NoTally == [v \in ViewIds |-> [sent |-> 0, kept |-> FALSE]]

TallyOf(e) == IF e.kind = "init" THEN NoTally ELSE e.tally

Tally(old, cs) ==
    [v \in ViewIds |->
       IF \E i \in 1..Len(cs) : cs[i].op = "Set" /\ cs[i].ok
                                 /\ cs[i].key = SessionKey(v)
       THEN [sent |-> 0, kept |-> FALSE]
       ELSE IF /\ Len(cs) >= 2 /\ cs[1].op = "Get" /\ cs[1].key = SessionKey(v)
               /\ cs[2].op = "RPush" /\ cs[2].list = "slackliner" /\ cs[2].ok
       THEN [sent |-> old[v].sent + 1,
             kept |-> old[v].kept \/ (\E j \in 1..Len(cs) : cs[j].op = "Del" /\ ~cs[j].ok)]
       ELSE old[v]]

SessionEvent(kind, payload) ==
    /\ handled' = handled + 1
    /\ ev' = [kind |-> kind, payload |-> payload, tally |-> Tally(TallyOf(ev), calls')]
    /\ UNCHANGED loopVars

SessionResult ==
    /\ handled < MaxSessionEvents
    /\ \E payload \in SessionResults :
          handlePoppitOutput(payload) /\ SessionEvent("output", payload)

SessionSubmission ==
    /\ handled < MaxSessionEvents
    /\ \E payload \in SessionSubmissions :
          handleViewSubmission(payload) /\ SessionEvent("submission", payload)

NextSessions == SessionResult \/ SessionSubmission

SpecSessions == Init /\ [][NextSessions]_vars

----------------------------------------------------------------------------
(* The result subscriber of a running service whose Redis and Slack calls   *)
(* all succeed: results are delivered to the subscription in the order they *)
(* are published, and the loop of subscribeToPoppitOutput takes them one at *)
(* a time.                                                                   *)

LiveResult(v, x) ==
    PoppitOutput(poppitPRListType,
                 Metadata(JStr(v), JStr(RepoOf(Name_svc)), JStr(<<"a","l","i","c","e">>)), x)

LiveResults ==
    { BadJSON }
    \cup { LiveResult(<<"V", "1">>, x) : x \in {JGarbageDoc, JArrayDoc(<< >>)} }
    \cup { LiveResult(v, JArrayDoc(<<PR8, PR7>>)) : v \in {<<"V", "1">>, <<"V", "2">>} }

\* Redis delivers a published result to the subscription
ResultPublished ==
    /\ ctx = "live"
    /\ handled + Len(inbox["output"]) < MaxPublished
    /\ \E payload \in LiveResults :
          inbox' = [inbox EXCEPT !["output"] =
                      Append(@, [id |-> handled + Len(inbox["output"]) + 1,
                                 payload |-> payload])]
    /\ UNCHANGED <<ctx, loop, running, handled>>
    /\ LoopQuiet

\* case msg := <-ch: handlePoppitOutput(ctx, rdb, slackClient, msg.Payload, config)
ResultHandled ==
    /\ ctx = "live" /\ loop["output"].pc = "select" /\ LoopFree("output")
    /\ inbox["output"] # << >>
    /\ LET msg == NextMessage(inbox["output"]) IN
          /\ handlePoppitOutput(msg.payload)
          /\ \A i \in 1..Len(calls') : calls'[i].ok
          /\ ev' = [kind |-> "output", payload |-> msg.payload, id |-> msg.id]
    /\ inbox' = [inbox EXCEPT !["output"] = Tail(@)]
    /\ handled' = handled + 1
    /\ UNCHANGED <<ctx, loop, running>>

NextLive == ResultPublished \/ ResultHandled

\* the goroutine of the subscriber is scheduled whenever a message waits
SpecLive == Init /\ [][NextLive]_vars /\ WF_vars(ResultHandled)

----------------------------------------------------------------------------
(* Vocabulary of the properties *)

IsPrefix(p, s) == Len(p) <= Len(s) /\ SubSeq(s, 1, Len(p)) = p

\* the token grammar: letters, digits, '.', '-' and '_'
GrammarChars == Letters \cup Digits \cup {".", "-", "_"}
OnlyGrammarChars(s) == \A i \in 1..Len(s) : s[i] \in GrammarChars
HasChar(s, cs) == \E i \in 1..Len(s) : s[i] \in cs
HasDotDot(s) == \E i \in 1..(Len(s) - 1) : s[i] = "." /\ s[i + 1] = "."
OnlyWhiteSpace(s) == \A i \in 1..Len(s) : s[i] \in WhiteSpace

RedisUnchanged == UNCHANGED <<sessions, poppitList, slackLinerList>>

UICalls(cs) == {i \in 1..Len(cs) : cs[i].op \in {"OpenView", "PushView", "UpdateView"}}

\* e is a /pr slash command
IsPR(e) ==
    e.kind = "slash" /\ e.payload.json = "ok" /\ e.payload.command = "/pr"

\* e is a /pr command whose trimmed text is a valid repo argument
ValidArgCommand(e) ==
    /\ IsPR(e)
    /\ TrimSpace(e.payload.text) # << >>
    /\ OnlyGrammarChars(TrimSpace(e.payload.text))

\* e is a /pr command whose trimmed text is not empty and breaks the grammar
InvalidArgCommand(e) ==
    /\ IsPR(e)
    /\ TrimSpace(e.payload.text) # << >>
    /\ ~OnlyGrammarChars(TrimSpace(e.payload.text))

\* e is a result with the expected discriminator and a view id and a repo
\* in its metadata
IsPRListResult(e) ==
    /\ e.kind = "output" /\ e.payload.json = "ok"
    /\ e.payload.type = "slash-vibe-pr-list"
    /\ e.payload.metadata.present
    /\ e.payload.metadata.view_id.t = "str" /\ e.payload.metadata.view_id.v # << >>
    /\ e.payload.metadata.repo.t = "str" /\ e.payload.metadata.repo.v # << >>

ResultView(e) == e.payload.metadata.view_id.v
ResultRepo(e) == e.payload.metadata.repo.v

\* an array element that cannot be decoded into a candidate
BadElement(x) ==
    \/ x.kind \notin {"object", "null"}
    \/ /\ x.kind = "object"
       /\ \/ x.number.t \notin {"int", "absent", "null"}
          \/ \E m \in {x.title, x.author, x.url, x.headRefName} :
                m.t \notin {"str", "absent", "null"}

\* the output text is not a JSON array of candidates (nor null)
Unparsable(doc) ==
    \/ doc.kind \notin {"array", "null"}
    \/ doc.kind = "array" /\ \E i \in 1..Len(doc.elems) : BadElement(doc.elems[i])

ZeroItems(doc) == doc.kind = "null" \/ (doc.kind = "array" /\ doc.elems = << >>)

\* e is a result whose output parses to a non-empty candidate list
NonEmptyResult(e) ==
    /\ IsPRListResult(e)
    /\ ~Unparsable(e.payload.output) /\ ~ZeroItems(e.payload.output)

\* the candidates of a parsable array, read off its elements
FieldOr(m, zero) == IF m.t \in {"str", "int"} THEN m.v ELSE zero
CandidateOf(x) ==
    IF x.kind = "null" THEN ZeroPRItem
    ELSE [Number |-> FieldOr(x.number, 0), Title |-> FieldOr(x.title, << >>),
          Login |-> FieldOr(x.author, << >>), URL |-> FieldOr(x.url, << >>),
          HeadRefName |-> FieldOr(x.headRefName, << >>)]
Candidates(e) ==
    [i \in 1..Len(e.payload.output.elems) |-> CandidateOf(e.payload.output.elems[i])]

----------------------------------------------------------------------------
(* C1 *)

C1_Step ==
    ValidArgCommand(ev') =>
       LET cmd == ev'.payload
           repo == GitHubOrg \o <<"/">> \o TrimSpace(cmd.text)
       IN  /\ Len(calls') >= 1
           /\ calls'[1].op = "OpenView"
           /\ calls'[1].token = cmd.trigger_id
           /\ calls'[1].modal.kind = "loading"
           /\ UICalls(calls') = {1}
           /\ UNCHANGED <<sessions, slackLinerList>>
           /\ IF calls'[1].ok
              THEN /\ Len(calls') = 2
                   /\ calls'[2].op = "RPush" /\ calls'[2].list = "poppit"
                   /\ calls'[2].payload.repo = repo
                   /\ poppitList' = IF calls'[2].ok
                                    THEN Append(poppitList, calls'[2].payload)
                                    ELSE poppitList
              ELSE Len(calls') = 1 /\ UNCHANGED poppitList

\* C1: a /pr command whose trimmed text is a valid repo argument opens the
\* Loading dialog with the command's own trigger id, does not open the repo
\* chooser, and then (the dialog having opened) pushes exactly one Poppit
\* command whose repo is "<GitHubOrg>/<argument>".
C1_ValidArgLoadsPRs == [][C1_Step]_vars

C1_Witness ==
    /\ ValidArgCommand(ev)
    /\ ev.payload.text = <<" ">> \o Name_web \o <<"\t">>
    /\ ev.payload.trigger_id = <<"T","1">>
    /\ Len(calls) = 2 /\ calls[2].ok
    /\ calls[1].token = <<"T","1">>
    /\ Len(poppitList) = 2
    /\ poppitList[2].repo = <<"a","c","m","e","/","w","e","b">>

----------------------------------------------------------------------------
(* C2 *)

C2_Step ==
    (IsPR(ev') /\ OnlyWhiteSpace(ev'.payload.text)) =>
       /\ Len(calls') = 1
       /\ calls'[1].op = "OpenView"
       /\ calls'[1].modal.kind = "repo_chooser"
       /\ calls'[1].token = ev'.payload.trigger_id
       /\ RedisUnchanged

\* C2: a /pr command whose text is empty or only white space opens the repo
\* chooser dialog with the command's trigger id, pushes no Poppit command and
\* writes no session.
C2_NoArgOpensChooser == [][C2_Step]_vars

C2_Witness ==
    /\ IsPR(ev)
    /\ ev.payload.text = <<"\t", " ">>
    /\ ev.payload.trigger_id = <<"T","2">>
    /\ Len(calls) = 1 /\ calls[1].ok
    /\ calls[1].modal.kind = "repo_chooser"

----------------------------------------------------------------------------
(* C3 *)

Accepted == calls # << >> /\ calls[1].op = "OpenView" /\ calls[1].modal.kind = "loading"
Rejected == calls = << >>

\* C3 as claimed: every argument made only of grammar characters is accepted,
\* and every argument that contains white space, '/', ';' or ".." is rejected.
C3_Original ==
    (IsPR(ev) /\ TrimSpace(ev.payload.text) # << >>) =>
       LET arg == TrimSpace(ev.payload.text)
       IN  /\ OnlyGrammarChars(arg) => Accepted
           /\ (HasChar(arg, WhiteSpace \cup {"/", ";"}) \/ HasDotDot(arg)) => Rejected

\* C3 (amended): every non-empty argument made only of letters, digits, '.',
\* '-' and '_' is accepted, ".." included; every argument that contains white
\* space, '/' or ';' is rejected.
C3_Validation ==
    (IsPR(ev) /\ TrimSpace(ev.payload.text) # << >>) =>
       LET arg == TrimSpace(ev.payload.text)
       IN  /\ OnlyGrammarChars(arg) => Accepted
           /\ HasChar(arg, WhiteSpace \cup {"/", ";"}) => Rejected

C3_Witness ==
    /\ IsPR(ev)
    /\ ev.payload.text = <<"a", ".", ".">>
    /\ Accepted

----------------------------------------------------------------------------
(* C4 *)

C4_Step == InvalidArgCommand(ev') => (calls' = << >> /\ RedisUnchanged)

\* C4: a /pr command whose argument fails validation is dropped: no Slack
\* call, no Poppit command, no session write.
C4_InvalidArgDropped == [][C4_Step]_vars

C4_Witness ==
    /\ InvalidArgCommand(ev)
    /\ ev.payload.text = <<"a", "/", "b">>
    /\ calls = << >>
    /\ handled = 2

----------------------------------------------------------------------------
(* C5 *)

UnknownDiscriminator(e) ==
    \/ e.kind = "slash" /\ e.payload.json = "ok" /\ e.payload.command # "/pr"
    \/ e.kind = "submission" /\ e.payload.json = "ok"
       /\ e.payload.callback_id # "select_pr_modal"
    \/ e.kind = "output" /\ e.payload.json = "ok"
       /\ e.payload.type # "slash-vibe-pr-list"

C5_Step == UnknownDiscriminator(ev') => (calls' = << >> /\ RedisUnchanged)

\* C5: a slash command other than /pr, a view submission whose callback id is
\* not select_pr_modal and a Poppit output whose type is not slash-vibe-pr-list
\* cause no Slack call, no session read or write and no push.
C5_UnknownDiscriminatorIgnored == [][C5_Step]_vars

\* a submission for another modal that names a PR of a live session
C5_Witness ==
    /\ ev.kind = "submission" /\ UnknownDiscriminator(ev)
    /\ SessionKey(ev.payload.view_id) \in DOMAIN sessions
    /\ extractTextValue(ev.payload.values, "pr_block", "pr_select") = <<"7">>
    /\ calls = << >>

----------------------------------------------------------------------------
(* C6 *)

ResultKey(e) == <<"s","l","a","s","h","v","i","b","e","p","r","s",":">> \o ResultView(e)

\* C6: a result with the expected discriminator whose output parses to a
\* non-empty candidate list is stored under its view id (the session decodes
\* to exactly the parsed candidates, in order), and the UpdateView issued for
\* that view id has one option per candidate, in order, whose text starts with
\* "#<number>" and whose value is the number.
C6_SessionAndOptions ==
    NonEmptyResult(ev) =>
       LET prs == Candidates(ev) IN
       /\ Len(calls) >= 1
       /\ calls[1].op = "Set" /\ calls[1].key = ResultKey(ev)
       /\ calls[1].ok =>
             /\ ResultKey(ev) \in DOMAIN sessions
             /\ UnmarshalPRs(sessions[ResultKey(ev)].val) = [err |-> FALSE, prs |-> prs]
             /\ Len(calls) = 2
             /\ calls[2].op = "UpdateView" /\ calls[2].viewID = ResultView(ev)
             /\ Len(calls[2].modal.options) = Len(prs)
             /\ \A i \in 1..Len(prs) :
                   /\ IsPrefix(<<"#">> \o Itoa(prs[i].Number),
                               calls[2].modal.options[i].text)
                   /\ calls[2].modal.options[i].value = Itoa(prs[i].Number)

C6_Witness ==
    /\ NonEmptyResult(ev)
    /\ Len(Candidates(ev)) = 2
    /\ Candidates(ev)[1].Number = 8 /\ Candidates(ev)[2].Number = 7
    /\ Len(calls) = 2 /\ calls[2].ok
    /\ calls[2].modal.options[1].text = <<"#", "8", ":", " ", "A", "d", "d">>

----------------------------------------------------------------------------
(* C7 *)

\* some part of the stored session is the collection id
HoldsCollection(session, repo) ==
    \/ \E f \in (DOMAIN session) \ {"val", "ttl"} : session[f] = repo
    \/ session.val.kind = "object" /\ session.val.repo = JStr(repo)
    \/ /\ session.val.kind = "array"
       /\ \E i \in 1..Len(session.val.elems) :
             \E m \in {session.val.elems[i].title, session.val.elems[i].author,
                       session.val.elems[i].url, session.val.elems[i].headRefName} :
                m.t = "str" /\ m.v = repo

HoldsCandidates(session, prs) ==
    /\ session.val.kind = "array"
    /\ Len(session.val.elems) = Len(prs)
    /\ \A i \in 1..Len(prs) :
          session.val.elems[i] =
             [kind |-> "object",
              number |-> JInt(prs[i].Number), title |-> JStr(prs[i].Title),
              author |-> JStr(prs[i].Login), url |-> JStr(prs[i].URL),
              headRefName |-> JStr(prs[i].HeadRefName)]

----------------------------------------------------------------------------
(* C8 *)

\* C8: the Selection UI that replaces the Loading UI carries private metadata
\* that decodes to the repo of the result's metadata, and it replaces the view
\* whose id is in the same metadata.
C8_SelectionEchoesRepo ==
    NonEmptyResult(ev) =>
       /\ calls # << >>
       /\ calls[1].ok =>
             /\ Len(calls) = 2
             /\ calls[2].op = "UpdateView"
             /\ calls[2].modal.kind = "pr_chooser"
             /\ UnmarshalMeta(calls[2].modal.privateMetadata) =
                   [err |-> FALSE, Repo |-> ResultRepo(ev)]
             /\ calls[2].viewID = ResultView(ev)

C8_Witness ==
    /\ NonEmptyResult(ev)
    /\ ResultRepo(ev) = <<"a","c","m","e","/","w","e","b">>
    /\ ResultView(ev) = <<"V","2">>
    /\ Len(calls) = 2 /\ calls[2].ok
    /\ calls[2].viewID = <<"V","2">>

----------------------------------------------------------------------------
(* C9 *)

C9_Step ==
    (IsPRListResult(ev') /\ ZeroItems(ev'.payload.output)) =>
       /\ Len(calls') = 1
       /\ calls'[1].op = "UpdateView"
       /\ calls'[1].viewID = ResultView(ev')
       /\ calls'[1].modal.kind = "error"
       /\ calls'[1].modal.message =
             [fmt |-> "No open pull requests found for %s.",
              args |-> <<ResultRepo(ev')>>]
       /\ RedisUnchanged

\* C9: a result with the expected discriminator whose output parses to zero
\* items yields exactly one UpdateView, for its view id, with the message
\* "No open pull requests found for <repo>.", and no session write.
C9_EmptyResultShowsMessage == [][C9_Step]_vars

\* an empty result for a view that already has a session
C9_Witness ==
    /\ IsPRListResult(ev)
    /\ ev.payload.output.kind = "null"
    /\ ResultKey(ev) \in DOMAIN sessions
    /\ Len(calls) = 1 /\ calls[1].op = "UpdateView"

----------------------------------------------------------------------------
(* C10 *)

C10_Step ==
    (IsPRListResult(ev') /\ Unparsable(ev'.payload.output)) =>
       /\ Len(calls') = 1
       /\ calls'[1].op = "UpdateView"
       /\ calls'[1].viewID = ResultView(ev')
       /\ calls'[1].modal.kind = "error"
       /\ calls'[1].modal.message =
             [fmt |-> "Failed to parse the pull request list. Please try again.",
              args |-> << >>]
       /\ calls'[1].modal.message.fmt # "No open pull requests found for %s."
       /\ RedisUnchanged

\* C10: a result with the expected discriminator whose output fails to parse
\* yields exactly one UpdateView, for its view id, with the parse-failure
\* message, which differs from the empty-result message, and no session write.
C10_ParseFailureShowsMessage == [][C10_Step]_vars

\* an array whose second element has a number of the wrong type
C10_Witness ==
    /\ IsPRListResult(ev)
    /\ ev.payload.output.kind = "array"
    /\ Len(ev.payload.output.elems) = 2
    /\ Unparsable(ev.payload.output)
    /\ Len(calls) = 1 /\ calls[1].modal.kind = "error"

----------------------------------------------------------------------------
(* Vocabulary of the selection properties *)

\* e is a submission of the Selection UI: the selection callback id and the
\* private metadata the Selection UI was given (an object naming the repo)
IsSelection(e) ==
    /\ e.kind = "submission" /\ e.payload.json = "ok"
    /\ e.payload.callback_id = "select_pr_modal"
    /\ e.payload.private_metadata.kind = "object"
    /\ e.payload.private_metadata.repo.t = "str"

SelectionKey(e) ==
    <<"s","l","a","s","h","v","i","b","e","p","r","s",":">> \o e.payload.view_id

\* the key submitted in pr_block / pr_select, << >> when there is none
SubmittedKey(e) ==
    LET values == e.payload.values IN
    IF "pr_block" \in DOMAIN values /\ "pr_select" \in DOMAIN values["pr_block"]
    THEN values["pr_block"]["pr_select"].selected_option.value.v
    ELSE << >>

\* the positions of the stored candidates whose number, in decimal, is key
Matches(session, key) ==
    {i \in 1..Len(session.val.elems) : Itoa(session.val.elems[i].number.v) = key}

Notifications(cs) ==
    {i \in 1..Len(cs) : cs[i].op = "RPush" /\ cs[i].list = "slackliner"}

----------------------------------------------------------------------------
(* C11 *)

C11_Step ==
    (IsSelection(ev') /\ SelectionKey(ev') \in DOMAIN sessions) =>
       LET session == sessions[SelectionKey(ev')]
           hits == Matches(session, SubmittedKey(ev'))
       IN  IF hits = {} \/ ~calls'[1].found
           THEN Notifications(calls') = {} /\ UNCHANGED slackLinerList
           ELSE /\ Notifications(calls') = {2}
                /\ \E i \in hits :
                      /\ calls'[2].payload.metadata.event_payload.pr_number
                            = session.val.elems[i].number.v
                      /\ calls'[2].payload.metadata.event_payload.branch
                            = session.val.elems[i].headRefName.v
                /\ slackLinerList' = IF calls'[2].ok
                                     THEN Append(slackLinerList, calls'[2].payload)
                                     ELSE slackLinerList

----------------------------------------------------------------------------
(* C12 *)

\* the submission matched a stored candidate and its notification was pushed
Notified(e, cs) ==
    /\ e.kind = "submission" /\ e.payload.json = "ok"
    /\ e.payload.callback_id = "select_pr_modal"
    /\ Len(cs) >= 2 /\ cs[1].op = "Get" /\ cs[1].found
    /\ cs[2].op = "RPush" /\ cs[2].list = "slackliner" /\ cs[2].ok

C12_Step ==
    Notified(ev', calls') =>
       /\ Len(calls') = 3
       /\ calls'[3].op = "Del" /\ calls'[3].key = SelectionKey(ev')
       /\ IF calls'[3].ok
          THEN /\ SelectionKey(ev') \notin DOMAIN sessions'
               /\ \A k \in (DOMAIN sessions) \ {SelectionKey(ev')} :
                     k \in DOMAIN sessions' /\ sessions'[k] = sessions[k]
          ELSE UNCHANGED sessions

\* C12: after a selection submission that matched a candidate of the live
\* session of its view id and whose notification was enqueued, the handler
\* deletes the session key of that view id: the delete having succeeded, the
\* session of that view id is absent and the other sessions are untouched (a
\* failed delete is only logged and leaves the session to expire).
C12_SessionDeletedAfterNotify == [][C12_Step]_vars

C12_Witness ==
    /\ Notified(ev, calls)
    /\ ev.payload.view_id = <<"V","1">>
    /\ Len(calls) = 3 /\ calls[3].ok
    /\ SelectionKey(ev) \notin DOMAIN sessions
    /\ Len(slackLinerList) = 1
    /\ slackLinerList[1].metadata.event_payload.pr_number = 7

----------------------------------------------------------------------------
(* C13 *)

\* e is a submission with the selection callback id
IsSelectionSubmission(e) ==
    /\ e.kind = "submission" /\ e.payload.json = "ok"
    /\ e.payload.callback_id = "select_pr_modal"

C13_Step ==
    (IsSelectionSubmission(ev') /\ SelectionKey(ev') \notin DOMAIN sessions) =>
       /\ Notifications(calls') = {}
       /\ UICalls(calls') = {}
       /\ \A i \in 1..Len(calls') : calls'[i].op = "Get" /\ ~calls'[i].found
       /\ RedisUnchanged

\* C13: a selection submission whose view id has no session (expired, unknown
\* or never created) is dropped: no notification is enqueued, no UI call is
\* made, the only call is a session read that finds nothing, and the session
\* store and both lists are unchanged.
C13_MissingSessionDropped == [][C13_Step]_vars

C13_Witness ==
    /\ IsSelection(ev)
    /\ SubmittedKey(ev) = <<"7">>
    /\ ev.payload.view_id = <<"V","2">>
    /\ calls = <<GetCall(SelectionKey(ev), FALSE)>>
    /\ DOMAIN sessions = {SelectionKey([payload |-> [view_id |-> <<"V","1">>]])}
    /\ slackLinerList = << >>

----------------------------------------------------------------------------
(* C14 *)

\* C14: for every session and view id, a put of the session followed by a
\* delete of that view id followed by a get of that view id returns absent,
\* whatever the store held before.
C14_GetAfterDeleteAbsent ==
    \A i \in 1..(Len(calls) - 2) :
       ( /\ calls[i].op = "Set" /\ calls[i].ok
         /\ calls[i + 1].op = "Del" /\ calls[i + 1].ok
         /\ calls[i + 1].key = calls[i].key
         /\ calls[i + 2].op = "Get" /\ calls[i + 2].key = calls[i].key )
       => ~calls[i + 2].found

C14_Witness ==
    /\ Len(calls) = 4
    /\ calls[1].op = "Set" /\ calls[1].ok /\ calls[1].key = SelectionKey([payload |-> [view_id |-> <<"V","1">>]])
    /\ calls[2].op = "Set" /\ calls[2].ok /\ calls[2].key = calls[1].key
    /\ calls[2].val # calls[1].val
    /\ calls[3].op = "Del" /\ calls[3].ok /\ calls[3].key = calls[1].key
    /\ calls[4].op = "Get" /\ calls[4].key = calls[1].key /\ ~calls[4].found
    /\ sessions = NoKeys

----------------------------------------------------------------------------
(* C15 *)

\* the step is a delete of key k, successful or not
IsDelete(k) ==
    /\ Len(calls') = Len(calls) + 1
    /\ calls'[Len(calls')].op = "Del" /\ calls'[Len(calls')].key = k

C15_Step ==
    \A v \in ViewIds :
       LET k == SelectionKey([payload |-> [view_id |-> v]]) IN
       IsDelete(k) =>
          \* a delete of an absent key changes nothing
          /\ k \notin DOMAIN sessions => sessions' = sessions
          \* a delete that follows a successful delete of the same key leaves
          \* the store as the first delete left it
          /\ ( /\ calls # << >>
               /\ calls[Len(calls)].op = "Del" /\ calls[Len(calls)].ok
               /\ calls[Len(calls)].key = k ) => sessions' = sessions
          \* no delete touches another key
          /\ \A x \in (DOMAIN sessions) \ {k} :
                x \in DOMAIN sessions' /\ sessions'[x] = sessions[x]

\* C15: deleting the session of a view id that has no session changes
\* nothing (the missing key is no error: the delete has the same outcomes as
\* on a present key), so a second delete of the same view id, as issued for
\* a late duplicate submission, leaves the store as the first delete left it.
C15_DeleteAbsentNoOp == [][C15_Step]_vars

C15_Witness ==
    /\ Len(calls) = 4
    /\ calls[1].op = "Set" /\ calls[1].ok /\ calls[1].key = SelectionKey([payload |-> [view_id |-> <<"V","1">>]])
    /\ calls[2].op = "Set" /\ calls[2].ok /\ calls[2].key = SelectionKey([payload |-> [view_id |-> <<"V","2">>]])
    /\ calls[3].op = "Del" /\ calls[3].ok /\ calls[3].key = calls[1].key
    /\ calls[4].op = "Del" /\ calls[4].ok /\ calls[4].key = calls[1].key
    /\ DOMAIN sessions = {calls[2].key}

----------------------------------------------------------------------------
(* C16 *)

Replaces(cs) == {i \in 1..Len(cs) : cs[i].op = "UpdateView"}

\* C16: every dialog replace the program issues, for the Selection UI and for
\* both inline-error UIs, carries the empty concurrency token (hash).
C16_ReplaceUsesEmptyToken ==
    \A i \in Replaces(calls) :
       /\ calls[i].hash = << >>
       /\ calls[i].modal.kind \in {"pr_chooser", "error"}

C16_Witness ==
    /\ ev.kind = "output"
    /\ Replaces(calls) = {1}
    /\ calls[1].modal.kind = "error"
    /\ calls[1].modal.message.args # << >>
    /\ calls[1].hash = << >>
    /\ calls[1].viewID = <<"V","2">>
    /\ handled = 2
    /\ SelectionKey([payload |-> [view_id |-> <<"V","2">>]]) \in DOMAIN sessions

----------------------------------------------------------------------------
(* C17 *)

LoadingDialogs(cs) ==
    {i \in 1..Len(cs) : cs[i].op \in {"OpenView", "PushView"}
                         /\ cs[i].modal.kind = "loading"}

C17_Step ==
    \A i \in LoadingDialogs(calls') :
       /\ ev'.kind \in {"slash", "block"}
       /\ calls'[i].token = ev'.payload.trigger_id
       /\ calls'[i].op = IF ev'.kind = "slash" THEN "OpenView" ELSE "PushView"

\* C17: every Loading dialog is opened (slash command) or pushed (block
\* action) with the trigger id carried by the event being handled, never with
\* the token of an earlier event or one taken from stored state.
C17_LoadingUsesOwnToken == [][C17_Step]_vars

C17_Witness ==
    /\ ev.kind = "block" /\ ev.payload.json = "ok"
    /\ ev.payload.trigger_id = <<"T","2">>
    /\ LoadingDialogs(calls) = {1}
    /\ calls[1].op = "PushView" /\ calls[1].token = <<"T","2">> /\ calls[1].ok
    /\ handled = 2
    /\ Len(poppitList) = 2
    /\ poppitList[2].metadata.view_id = calls[1].viewID

----------------------------------------------------------------------------
(* C18 *)

ExecutionRequests(cs) == {i \in 1..Len(cs) : cs[i].op = "RPush" /\ cs[i].list = "poppit"}

\* the collection and the user an event asks for
TargetOf(e) ==
    <<"a","c","m","e","/">> \o
       (IF e.kind = "slash" THEN TrimSpace(e.payload.text)
        ELSE e.payload.actions[1].value)
RequesterOf(e) ==
    IF e.kind = "slash" THEN e.payload.user_name ELSE e.payload.username

C18_Step ==
    /\ \A i \in ExecutionRequests(calls') :
          LET req == calls'[i].payload IN
          /\ i = 2 /\ ev'.kind \in {"slash", "block"}
          /\ calls'[1].op \in {"OpenView", "PushView"} /\ calls'[1].ok
          /\ req.metadata.view_id = calls'[1].viewID
          /\ req.metadata.repo = TargetOf(ev') /\ req.repo = TargetOf(ev')
          /\ req.metadata.username = RequesterOf(ev')
          /\ req.type = "slash-vibe-pr-list"
          /\ IsPRListOutput([type |-> req.type])
    /\ \/ UNCHANGED poppitList
       \/ /\ ExecutionRequests(calls') = {2} /\ calls'[2].ok
          /\ poppitList' = Append(poppitList, calls'[2].payload)

\* C18: every execution request enqueued carries in its metadata the view id
\* returned by the dialog-open call made for the same event, the target
\* collection and the requesting user's name, and its type is the one
\* handlePoppitOutput accepts; nothing else is ever put on the Poppit list.
C18_RequestCarriesCorrelation == [][C18_Step]_vars

C18_Witness ==
    /\ ev.kind = "slash" /\ ev.payload.json = "ok"
    /\ ExecutionRequests(calls) = {2} /\ calls[2].ok
    /\ calls[1].viewID = <<"V","2">>
    /\ Len(poppitList) = 1
    /\ poppitList[1].metadata =
          [view_id |-> <<"V","2">>, repo |-> <<"a","c","m","e","/","s","v","c">>,
           username |-> <<"a","l","i","c","e">>]
    /\ poppitList[1].type = "slash-vibe-pr-list"

----------------------------------------------------------------------------
(* C19 *)

\* e is a chooser pick: a block action whose first action has action id
\* SlashVibeIssue, block id repo_block and a non-empty selected value
ChooserPick(e) ==
    /\ e.kind = "block" /\ e.payload.json = "ok"
    /\ Len(e.payload.actions) >= 1
    /\ e.payload.actions[1].action_id = "SlashVibeIssue"
    /\ e.payload.actions[1].block_id = "repo_block"
    /\ e.payload.actions[1].value # << >>

C19_Step ==
    ChooserPick(ev') =>
       /\ Len(calls') >= 1
       /\ calls'[1].op = "PushView" /\ calls'[1].modal.kind = "loading"
       /\ calls'[1].ok =>
             /\ ExecutionRequests(calls') = {2}
             /\ calls'[2].payload.repo = TargetOf(ev')
             /\ calls'[2].ok => poppitList' = Append(poppitList, calls'[2].payload)

\* C19: a chooser pick delivered on the block-actions channel of the running
\* service leads to a pushed Loading dialog and (the push having succeeded)
\* exactly one execution request for "<GitHubOrg>/<value>".
C19_ChooserPickLoadsPRs == [][C19_Step]_vars

----------------------------------------------------------------------------
(* C20 *)

\* e is a decoded block action that is not a chooser pick: no actions, or a
\* first action with another action id, another block id or an empty value
NotAChooserPick(e) ==
    /\ e.kind = "block" /\ e.payload.json = "ok"
    /\ \/ e.payload.actions = << >>
       \/ e.payload.actions[1].action_id # "SlashVibeIssue"
       \/ e.payload.actions[1].block_id # "repo_block"
       \/ e.payload.actions[1].value = << >>

C20_Step == NotAChooserPick(ev') => (calls' = << >> /\ RedisUnchanged)

\* C20: handleBlockAction ignores a block action that has no actions, or
\* whose first action has an action id other than SlashVibeIssue, a block id
\* other than repo_block or an empty selected value: no UI call, no enqueue,
\* nothing changed.
C20_OtherBlockActionsIgnored == [][C20_Step]_vars

C20_Witness ==
    /\ NotAChooserPick(ev)
    /\ Len(ev.payload.actions) = 1
    /\ ev.payload.actions[1].action_id = "SlashVibeIssue"
    /\ ev.payload.actions[1].block_id = "other_block"
    /\ ev.payload.actions[1].value # << >>
    /\ calls = << >>
    /\ handled = 2
    /\ Len(poppitList) = 1

----------------------------------------------------------------------------
(* C21 *)

Channels == {"slash", "submission", "output"}

C21_Step ==
    \A c \in Channels :
       /\ Len(running'[c]) <= 1
       /\ Len(running'[c]) > Len(running[c]) =>
             \* the handler before it has returned
             /\ running[c] = << >>
             \* and it is given the oldest message not yet handled
             /\ inbox[c] # << >>
             /\ running'[c] = <<[msg |-> Head(inbox[c]), next |-> 0]>>
             /\ inbox'[c] = Tail(inbox[c])
       \* messages wait in the order they were received
       /\ Len(inbox'[c]) > Len(inbox[c]) =>
             SubSeq(inbox'[c], 1, Len(inbox[c])) = inbox[c]

\* C21: on each channel at most one handler is in progress: a handler starts
\* only when the one before it on that channel has returned, and it is given
\* the oldest message received on that channel and not yet handled, so the
\* events of a channel are handled in the order they were received.
C21_SingleFlightInOrder == [][C21_Step]_vars

C21_Witness ==
    /\ loop["slash"].last = "failed"
    /\ running["slash"] = <<[msg |-> "valid", next |-> 2]>>
    /\ inbox["slash"] = <<"malformed">>
    /\ handled = 2

----------------------------------------------------------------------------
(* C22 *)

\* subscriber c is at its select with a message to receive
Ready(c) ==
    /\ ctx # "exited" /\ loop[c].pc = "select"
    /\ running[c] = << >> /\ inbox[c] # << >>

\* C22: each subscriber is its own task: whenever a subscriber is at its
\* select with a message waiting, it can start the handler at once, whatever
\* the handlers of the other channels are doing; handlers of different
\* channels can be in progress at the same time.
C22_ChannelsIndependent ==
    \A c \in Channels : Ready(c) => ENABLED Dispatch(c)

C22_Witness ==
    /\ running["slash"] = <<[msg |-> "valid", next |-> 2]>>
    /\ running["output"] = <<[msg |-> "valid", next |-> 1]>>
    /\ Ready("submission")

----------------------------------------------------------------------------
(* C23 *)

C23_Step ==
    \* after the signal no subscriber takes a message and hands it to a handler
    /\ \A c \in Channels : Len(running'[c]) > Len(running[c]) => ctx = "live"
    \* no handler is cut short because the context is cancelled
    /\ \A c \in Channels :
          (loop'[c] # loop[c] /\ loop'[c].last = "canceled") => UNCHANGED running
    \* the process exits only when no handler is in progress
    /\ (ctx = "cancelled" /\ ctx' = "exited") =>
          \A c \in Channels : running[c] = << >>

\* C23: after the root cancellation signal no event is received and
\* dispatched to a handler, and a handler that was in progress when the
\* signal arrived completes all of its remaining steps before the process
\* exits.
C23_GracefulStop == [][C23_Step]_vars

----------------------------------------------------------------------------
(* C24 *)

ViewKey(v) == SelectionKey([payload |-> [view_id |-> v]])

\* the successful puts and deletes of key k in the history, by position
Writes(k) ==
    {i \in 1..Len(calls) : calls[i].op \in {"Set", "Del"} /\ calls[i].ok
                            /\ calls[i].key = k}

LastWrite(k) == CHOOSE i \in Writes(k) : \A j \in Writes(k) : j <= i

\* C24: there is at most one live session per view id: every stored key is
\* the key of one view id, and the session of a view id is the one of the last
\* successful put for it (a put over a live session replaces it), if no
\* delete came after.
C24_OneSessionPerView ==
    /\ \A k \in DOMAIN sessions : \E v \in ViewIds : k = ViewKey(v)
    /\ Cardinality(DOMAIN sessions) <= Cardinality(ViewIds)
    /\ \A v \in ViewIds :
          IF Writes(ViewKey(v)) = {} \/ calls[LastWrite(ViewKey(v))].op = "Del"
          THEN ViewKey(v) \notin DOMAIN sessions
          ELSE /\ ViewKey(v) \in DOMAIN sessions
               /\ sessions[ViewKey(v)].val = calls[LastWrite(ViewKey(v))].val

C24_Witness ==
    /\ Len(calls) = 2
    /\ calls[1].op = "Set" /\ calls[1].ok /\ calls[1].key = ViewKey(<<"V","1">>)
    /\ calls[2].op = "Set" /\ calls[2].ok /\ calls[2].key = ViewKey(<<"V","1">>)
    /\ Len(calls[1].val.elems) = 1 /\ Len(calls[2].val.elems) = 2
    /\ DOMAIN sessions = {ViewKey(<<"V","1">>)}
    /\ Len(sessions[ViewKey(<<"V","1">>)].val.elems) = 2

----------------------------------------------------------------------------
(* C25 *)

Reads(cs) == {i \in 1..Len(cs) : cs[i].op = "Get"}

\* every call of the step did what it was asked to
AllOk(cs) ==
    \A i \in 1..Len(cs) : IF cs[i].op = "Get" THEN cs[i].found ELSE cs[i].ok

\* a session appears, or changes, only through the successful write of a
\* non-empty result, under its view id and with a one-hour lifetime
CreatedOnlyByResult ==
    \A k \in DOMAIN sessions' :
       (k \notin DOMAIN sessions \/ sessions'[k] # sessions[k]) =>
          /\ NonEmptyResult(ev') /\ k = ResultKey(ev')
          /\ calls'[1].op = "Set" /\ calls'[1].ok
          /\ sessions'[k].ttl = 60 * 60

\* only a selection submission reads a session, and it reads once
ReadOncePerSubmission ==
    /\ Reads(calls') # {} => IsSelectionSubmission(ev')
    /\ Cardinality(Reads(calls')) <= 1
    /\ \A i \in Reads(calls') : calls'[i].key = SelectionKey(ev')

ExpiryRemoves == ev'.kind = "expire" => ev'.key \notin DOMAIN sessions'

\* C25 as claimed: a session is created only by a non-empty result, is read
\* once on submission, and is deleted on a successful read or on expiry.
C25_Original ==
    [][ /\ CreatedOnlyByResult
        /\ ReadOncePerSubmission
        /\ ExpiryRemoves
        /\ (IsSelectionSubmission(ev') /\ Reads(calls') # {} /\ AllOk(calls')) =>
              SelectionKey(ev') \notin DOMAIN sessions' ]_vars

C25_Step ==
    /\ CreatedOnlyByResult
    /\ ReadOncePerSubmission
    /\ ExpiryRemoves
    \* a session goes away only by expiry or after its selection was notified
    /\ \A k \in (DOMAIN sessions) \ (DOMAIN sessions') :
          \/ ev'.kind = "expire" /\ ev'.key = k
          \/ Notified(ev', calls') /\ k = SelectionKey(ev') /\ calls'[3].ok
    /\ (Notified(ev', calls') /\ calls'[3].ok) =>
          SelectionKey(ev') \notin DOMAIN sessions'

\* C25 (amended): a session is created only by a non-empty executor result,
\* is read once by each selection submission for its view id, and is deleted
\* after a read that matched the submitted key and whose notification was
\* enqueued, or one hour after it was written, whichever comes first; after
\* either, get for that view id returns absent.
C25_SessionLifecycle == [][C25_Step]_vars

C25_Witness ==
    /\ IsSelection(ev)
    /\ SubmittedKey(ev) = <<"8">>
    /\ calls = <<GetCall(SelectionKey(ev), TRUE)>>
    /\ SelectionKey(ev) \in DOMAIN sessions
    /\ Len(sessions[SelectionKey(ev)].val.elems) = 1
    /\ sessions[SelectionKey(ev)].val.elems[1].number = JInt(7)
    /\ slackLinerList = << >>

----------------------------------------------------------------------------
(* C26 *)

\* the dialog v has just been shown an inline error
FailedDialog(v) ==
    /\ IsPRListResult(ev) /\ ResultView(ev) = v
    /\ Len(calls) = 1 /\ calls[1].op = "UpdateView"
    /\ calls[1].modal.kind = "error" /\ calls[1].ok

\* the selection of dialog v has just been posted and its session deleted
TerminalDialog(v) ==
    /\ Notified(ev, calls) /\ ev.payload.view_id = v
    /\ Len(calls) = 3 /\ calls[3].ok

\* the step creates a session for v, replaces the UI of v or emits a
\* notification for v
Revives(v) ==
    \E i \in 1..Len(calls') :
       \/ calls'[i].op = "Set" /\ calls'[i].key = ViewKey(v)
       \/ calls'[i].op = "UpdateView" /\ calls'[i].viewID = v
       \/ /\ calls'[i].op = "RPush" /\ calls'[i].list = "slackliner"
          /\ ev'.payload.view_id = v

\* C26: Failed and Terminal are absorbing: once a dialog has been shown an
\* inline error, or its selection has been posted and its session deleted, no
\* later event for that view id creates a session, replaces its UI or emits a
\* notification.
C26_FailedTerminalAbsorbing ==
    [][ \A v \in ViewIds : (FailedDialog(v) \/ TerminalDialog(v)) => ~Revives(v) ]_vars

----------------------------------------------------------------------------
(* C27 *)

C27_Step ==
    \A c \in Channels :
       \* when a handler returns, however it ended, its loop is at the select
       /\ Len(running'[c]) < Len(running[c]) =>
             /\ loop'[c].pc = "select"
             /\ loop'[c].last \in {"ok", "dropped", "failed", "canceled"}
       \* a loop ends only on the cancellation signal, never on account of
       \* what a handler did
       /\ (loop'[c].pc = "returned" /\ loop[c].pc # "returned") =>
             /\ ctx = "cancelled"
             /\ UNCHANGED running

\* C27: no outcome of handling one event stops a subscriber: after a
\* malformed payload, a validation failure or a failed bus or UI operation the
\* subscription loop is at its select again and takes the next event of its
\* channel; a loop ends only on the cancellation signal.
C27_LoopSurvivesHandler == [][C27_Step]_vars

C27_Witness ==
    /\ ctx = "live"
    /\ loop["slash"].last = "dropped"
    /\ loop["output"].last = "failed"
    /\ running["output"] = <<[msg |-> "malformed", next |-> 0]>>
    /\ loop["output"].pc = "select"

----------------------------------------------------------------------------
(* C28 *)

SessionCalls(cs) == {i \in 1..Len(cs) : cs[i].op \in {"Set", "Get", "Del"}}

\* the session key an event may touch: the one of the view id it names
OwnKeys(e) ==
    IF e.kind = "output" /\ IsPRListResult(e) THEN {ResultKey(e)}
    ELSE IF IsSelectionSubmission(e) THEN {SelectionKey(e)}
    ELSE {}

C28_Step ==
    ev'.kind \in {"slash", "block", "output", "submission"} =>
       /\ \A i \in SessionCalls(calls') :
             /\ calls'[i].key \in OwnKeys(ev')
             /\ calls'[i].op = "Set" <=> ev'.kind = "output"
       /\ \A k \in ((DOMAIN sessions) \cup (DOMAIN sessions')) \ OwnKeys(ev') :
             /\ k \in DOMAIN sessions /\ k \in DOMAIN sessions'
             /\ sessions'[k] = sessions[k]

\* C28: session operations on one view id leave the sessions of every other
\* view id unchanged: handlePoppitOutput writes only the key of the view id
\* in the result's metadata, handlePRSelection reads and deletes only the key
\* of the submission's view id, and no other handler touches a session.
C28_OtherSessionsUntouched == [][C28_Step]_vars

C28_Witness ==
    /\ NonEmptyResult(ev) /\ ResultView(ev) = <<"V","2">>
    /\ calls[1].op = "Set" /\ calls[1].ok
    /\ DOMAIN sessions = {ViewKey(<<"V","1">>), ViewKey(<<"V","2">>)}
    /\ sessions[ViewKey(<<"V","1">>)].val # sessions[ViewKey(<<"V","2">>)].val

----------------------------------------------------------------------------
(* C29 *)

\* the bus (Redis) calls of a step that failed
FailedBusCalls(cs) ==
    {i \in 1..Len(cs) :
        \/ cs[i].op \in {"RPush", "Set", "Del"} /\ ~cs[i].ok
        \/ cs[i].op = "Get" /\ ~cs[i].found}

C29_Step ==
    \A i \in FailedBusCalls(calls') :
       \* the failed call is the last call made for the event
       /\ i = Len(calls')
       \* and it has changed nothing
       /\ calls'[i].op = "RPush" => UNCHANGED <<poppitList, slackLinerList>>
       /\ UNCHANGED sessions
       \* the notification not enqueued, the session is not deleted
       /\ (calls'[i].op = "RPush" /\ calls'[i].list = "slackliner") =>
             /\ SelectionKey(ev') \in DOMAIN sessions'
             /\ \A j \in 1..Len(calls') : calls'[j].op # "Del"
       \* the session not written, no UI replacement is issued
       /\ calls'[i].op = "Set" => Replaces(calls') = {}

\* C29: when a bus operation fails inside a handler, the handler makes no
\* further bus or UI call for that event; when enqueuing the notification
\* fails in handlePRSelection the session is not deleted, and when the session
\* write fails in handlePoppitOutput no UI replacement is issued.
C29_BusFailureAborts == [][C29_Step]_vars

C29_Witness ==
    /\ IsSelection(ev)
    /\ Len(calls) = 2 /\ calls[1].op = "Get" /\ calls[1].found
    /\ calls[2].op = "RPush" /\ calls[2].list = "slackliner" /\ ~calls[2].ok
    /\ SelectionKey(ev) \in DOMAIN sessions
    /\ slackLinerList = << >>

----------------------------------------------------------------------------
(* C30 *)

ErrorUIs(cs) == {i \in UICalls(cs) : cs[i].modal.kind = "error"}

\* the calls of a step that failed
FailedCalls(cs) ==
    {i \in 1..Len(cs) : IF cs[i].op = "Get" THEN ~cs[i].found ELSE ~cs[i].ok}

\* the event is dropped by a decode error, a validation error or missing
\* metadata, or is a submission (missing session, unmatched selection)
SilentFailure(e) ==
    \/ e.kind \in {"slash", "block", "output", "submission"} /\ e.payload.json # "ok"
    \/ InvalidArgCommand(e)
    \/ /\ e.kind = "output" /\ e.payload.json = "ok"
       /\ e.payload.type = "slash-vibe-pr-list" /\ ~IsPRListResult(e)
    \/ e.kind = "submission"

C30_Step ==
    \* an error is shown only by the result handler, for a parse failure or
    \* an empty result, in the dialog the result names
    /\ \A i \in ErrorUIs(calls') :
          /\ calls'[i].op = "UpdateView" /\ Len(calls') = 1
          /\ IsPRListResult(ev') /\ calls'[i].viewID = ResultView(ev')
          /\ Unparsable(ev'.payload.output) \/ ZeroItems(ev'.payload.output)
    \* the other failure paths make no UI call
    /\ SilentFailure(ev') => UICalls(calls') = {}
    \* and no UI call follows a failed bus or UI call
    /\ \A i \in FailedCalls(calls') : \A j \in UICalls(calls') : j <= i

\* C30: the only error shown to the user is the inline-error UI replacement
\* issued by handlePoppitOutput for a parse failure or an empty result; every
\* other failure path of every handler (decode error, validation error,
\* missing metadata, missing session, unmatched selection, bus or UI failure)
\* makes no UI call after the failure.
C30_OnlyInlineErrorsShown == [][C30_Step]_vars

C30_Witness ==
    /\ ev.kind = "output" /\ ev.payload.json = "ok"
    /\ ev.payload.type = "slash-vibe-pr-list" /\ ~IsPRListResult(ev)
    /\ ev.payload.metadata.present
    /\ ev.payload.metadata.view_id = JInt(1)
    /\ calls = << >>
    /\ handled = 2
    /\ Len(poppitList) = 1

----------------------------------------------------------------------------
(* C31 *)

SessionWrites(cs) == {i \in 1..Len(cs) : cs[i].op = "Set"}

C31_Step ==
    /\ Cardinality(ExecutionRequests(calls')) <= 1
    /\ Cardinality(Notifications(calls')) <= 1
    /\ Cardinality(SessionWrites(calls')) <= 1
    /\ Cardinality(UICalls(calls')) <= 1
    \* and each list grows by at most one entry
    /\ Len(poppitList') <= Len(poppitList) + 1
    /\ Len(slackLinerList') <= Len(slackLinerList) + 1

\* C31: nothing is retried: handling one event makes at most one enqueue to
\* the execution-request list, at most one enqueue to the notification list,
\* at most one session write and at most one UI call, whether or not any of
\* them fails.
C31_NothingRetried == [][C31_Step]_vars

C31_Witness ==
    /\ ValidArgCommand(ev)
    /\ Len(calls) = 2
    /\ calls[1].op = "OpenView" /\ calls[1].ok
    /\ calls[2].op = "RPush" /\ calls[2].list = "poppit" /\ ~calls[2].ok
    /\ poppitList = << >>
    /\ handled = 2

----------------------------------------------------------------------------
(* C32 *)

\* "#<number>: <title>"
FullOptionText(pr) == <<"#">> \o Itoa(pr.Number) \o <<":", " ">> \o pr.Title

\* C32: createPRChooserModal produces exactly one option per candidate, in
\* list order, whose value is the candidate's number in decimal; an option's
\* text is "#<number>: <title>" unchanged when that is at most 75 bytes long,
\* and otherwise its first 72 bytes followed by "...", so no option text is
\* longer than 75 bytes.
C32_OptionsPerCandidate ==
    ev.kind = "render" =>
       LET options == calls[1].modal.options IN
       /\ Len(options) = Len(ev.prs)
       /\ \A i \in 1..Len(ev.prs) :
             LET full == FullOptionText(ev.prs[i]) IN
             /\ options[i].value = Itoa(ev.prs[i].Number)
             /\ options[i].text =
                   IF Len(full) <= 75 THEN full
                   ELSE SubSeq(full, 1, 72) \o <<".", ".", ".">>
             /\ Len(options[i].text) <= 75

C32_Witness ==
    /\ ev.kind = "render"
    /\ Len(ev.prs) = 3
    /\ Len(FullOptionText(ev.prs[1])) = 84
    /\ Len(calls[1].modal.options[1].text) = 75
    /\ SubSeq(calls[1].modal.options[1].text, 71, 75) = <<"7", "8", ".", ".", ".">>
    /\ calls[1].modal.options[2].text = <<"#", "1", "2", "0", ":", " ", "1", "2">>
    /\ calls[1].modal.options[3].value = <<"8">>

----------------------------------------------------------------------------
(* C33 *)

\* the field submitted under pr_block / pr_select, when there is one
HasField == /\ "pr_block" \in DOMAIN ev.values
            /\ "pr_select" \in DOMAIN ev.values["pr_block"]

Field == ev.values["pr_block"]["pr_select"]

HasSelectedValue == /\ Field.t = "object"
                    /\ Field.selected_option.t = "object"
                    /\ Field.selected_option.value.t = "str"

HasPlainValue == Field.t = "object" /\ Field.value.t = "str"

\* C33: extractTextValue returns the selected option's value for a field with
\* a selected option whose value is a string (whether or not the field also
\* has a plain value), the plain value for a field without one whose value is
\* a string, and the empty string when the block id or the action id is
\* missing, the field is not an object, or the value is null, absent or not a
\* string.
C33_ExtractTextValue ==
    ev.kind = "extract" =>
       /\ ~HasField => ev.result = << >>
       /\ HasField /\ Field.t # "object" => ev.result = << >>
       /\ HasField /\ HasSelectedValue => ev.result = Field.selected_option.value.v
       /\ HasField /\ ~HasSelectedValue /\ HasPlainValue => ev.result = Field.value.v
       /\ HasField /\ Field.t = "object" /\ ~HasSelectedValue /\ ~HasPlainValue
             => ev.result = << >>

C33_Witness ==
    /\ ev.kind = "extract"
    /\ HasField
    /\ HasSelectedValue
    /\ HasPlainValue
    /\ Field.value.v = <<"9">>
    /\ ev.result = <<"7">>

----------------------------------------------------------------------------
(* C34 *)

\* the Selection UI replacements among the calls of an event
SelectionUIs(cs) == {i \in Replaces(cs) : cs[i].modal.kind = "pr_chooser"}

\* C34: in every reachable state where a Selection UI replacement has been
\* issued for a view id, a Set of the session key of that view id succeeded
\* earlier in the same event, and the session it wrote is in the store; a
\* failed Set is followed by no UI call at all.
C34_WriteBeforeSelectionUI ==
    /\ \A i \in SelectionUIs(calls) :
          /\ \E j \in 1..(i - 1) :
                /\ calls[j].op = "Set" /\ calls[j].ok
                /\ calls[j].key = ViewKey(calls[i].viewID)
                /\ ViewKey(calls[i].viewID) \in DOMAIN sessions
                /\ sessions[ViewKey(calls[i].viewID)].val = calls[j].val
          /\ ev.kind = "output"
    /\ \A j \in SessionWrites(calls) :
          ~calls[j].ok => UICalls(calls) = {}

C34_Witness ==
    /\ ev.kind = "output"
    /\ Len(calls) = 2
    /\ calls[1].op = "Set" /\ calls[1].ok
    /\ calls[2].op = "UpdateView" /\ calls[2].modal.kind = "pr_chooser"
    /\ calls[2].viewID = <<"V", "2">>
    /\ calls[1].key = ViewKey(<<"V", "2">>)
    /\ ViewKey(<<"V", "1">>) \in DOMAIN sessions

----------------------------------------------------------------------------
(* C35 *)

\* C35: for one session written under a view id, the selection submissions
\* for that view id, duplicates included, yield at most one notification as
\* long as no delete after a notification has failed and no later result has
\* written the session again.
C35_AtMostOneNotification ==
    \A v \in ViewIds :
       ~TallyOf(ev)[v].kept => TallyOf(ev)[v].sent <= 1

\* a duplicate of a submission that was notified finds no session
C35_Witness ==
    /\ IsSelectionSubmission(ev)
    /\ ev.payload.view_id = <<"V", "1">>
    /\ SubmittedKey(ev) = <<"7">>
    /\ TallyOf(ev)[<<"V", "1">>] = [sent |-> 1, kept |-> FALSE]
    /\ Len(slackLinerList) = 1
    /\ calls = <<GetCall(ViewKey(<<"V", "1">>), FALSE)>>
    /\ ViewKey(<<"V", "1">>) \notin DOMAIN sessions
    /\ handled = 3

----------------------------------------------------------------------------
(* C36 *)

\* repo is "<GitHubOrg>/<name>" with a name inside the token grammar
GrammarRepo(repo) ==
    /\ IsPrefix(GitHubOrg \o <<"/">>, repo)
    /\ OnlyGrammarChars(SubSeq(repo, Len(GitHubOrg) + 2, Len(repo)))

\* C36: in every execution request the program enqueues, from a slash-command
\* argument or from a chooser pick, the repository is "<GitHubOrg>/<name>"
\* with <name> made of letters, digits, '.', '-' and '_' only, in the request,
\* in its metadata and in the command text handed to the executor.
C36_RequestsUseGrammar ==
    /\ \A i \in ExecutionRequests(calls) :
          /\ GrammarRepo(calls[i].payload.repo)
          /\ GrammarRepo(calls[i].payload.metadata.repo)
          /\ GrammarRepo(calls[i].payload.commands[1].args[1])
    /\ \A i \in 1..Len(poppitList) : GrammarRepo(poppitList[i].repo)

----------------------------------------------------------------------------
(* C37 *)

\* m is a non-empty JSON string
NonEmptyString(m) == m.t = "str" /\ m.v # << >>

\* e is a result with the expected discriminator whose metadata is missing or
\* lacks a non-empty string view_id or a non-empty string repo
UncorrelatedResult(e) ==
    /\ e.kind = "output" /\ e.payload.json = "ok"
    /\ e.payload.type = "slash-vibe-pr-list"
    /\ \/ ~e.payload.metadata.present
       \/ ~NonEmptyString(e.payload.metadata.view_id)
       \/ ~NonEmptyString(e.payload.metadata.repo)

C37_Step ==
    UncorrelatedResult(ev') =>
       /\ calls' = << >>
       /\ RedisUnchanged

\* C37: a result with the expected discriminator whose metadata is missing,
\* or lacks a non-empty string view_id or a non-empty string repo, is dropped:
\* no session is written and no call is made, even when its output is a valid
\* non-empty candidate list.
C37_UncorrelatedResultDropped == [][C37_Step]_vars

C37_Witness ==
    /\ UncorrelatedResult(ev)
    /\ ev.payload.metadata.present
    /\ ev.payload.metadata.view_id.t = "int"
    /\ NonEmptyString(ev.payload.metadata.repo)
    /\ ev.payload.output = JArrayDoc(<<PR7>>)
    /\ calls = << >>
    /\ handled = 2
    /\ DOMAIN sessions = {ViewKey(<<"V", "1">>)}

----------------------------------------------------------------------------
(* C38 *)

\* the private metadata text decodes into PRModalPrivateMetadata
Decodable(doc) ==
    \/ doc.kind = "null"
    \/ doc.kind = "object" /\ doc.repo.t \in {"str", "absent", "null"}

\* the repo it decodes to
DecodedRepo(doc) ==
    IF doc.kind = "object" /\ doc.repo.t = "str" THEN doc.repo.v ELSE << >>

C38_Step ==
    /\ IsSelectionSubmission(ev') =>
          LET doc == ev'.payload.private_metadata IN
          /\ \A i \in Notifications(calls') :
                /\ Decodable(doc)
                /\ calls'[i].payload.text.args[2] = DecodedRepo(doc)
                /\ calls'[i].payload.metadata.event_payload.repository = DecodedRepo(doc)
          /\ ~Decodable(doc) =>
                /\ Notifications(calls') = {}
                /\ RedisUnchanged
    /\ NonEmptyResult(ev') =>
          \A i \in SelectionUIs(calls') :
             /\ Decodable(calls'[i].modal.privateMetadata)
             /\ DecodedRepo(calls'[i].modal.privateMetadata) = ResultRepo(ev')

\* C38: the repository named in a notification, in its text and in its
\* metadata, is the one decoded from the private metadata of the submission,
\* and the private metadata a Selection UI is given decodes to the repo of the
\* result that created it; a submission whose private metadata cannot be
\* decoded enqueues no notification and leaves the session in place.
C38_RepoFromPrivateMetadata == [][C38_Step]_vars

C38_Witness ==
    /\ IsSelectionSubmission(ev)
    /\ ev.payload.view_id = <<"V", "1">>
    /\ ev.payload.private_metadata = MarshalMeta(<<"a","c","m","e","/","w","e","b">>)
    /\ Len(calls) = 3 /\ calls[2].op = "RPush" /\ calls[2].ok
    /\ calls[2].payload.metadata.event_payload.repository = <<"a","c","m","e","/","w","e","b">>
    /\ slackLinerList = <<calls[2].payload>>

----------------------------------------------------------------------------
(* C39 *)

\* the notification msg describes the stored candidate x
Describes(msg, x) ==
    LET p == msg.metadata.event_payload IN
    /\ x.kind = "object"
    /\ x.number = JInt(p.pr_number) /\ x.title = JStr(p.title)
    /\ x.author = JStr(p.author) /\ x.url = JStr(p.pr_url)
    /\ x.headRefName = JStr(p.branch)
    /\ msg.text.args[3] = p.pr_number /\ msg.text.args[4] = p.title
    /\ msg.text.args[5] = p.author /\ msg.text.args[6] = p.pr_url

C39_Step ==
    \A i \in Notifications(calls') :
       /\ IsSelectionSubmission(ev')
       /\ SelectionKey(ev') \in DOMAIN sessions
       /\ calls'[1] = GetCall(SelectionKey(ev'), TRUE)
       /\ \E j \in 1..Len(sessions[SelectionKey(ev')].val.elems) :
             Describes(calls'[i].payload, sessions[SelectionKey(ev')].val.elems[j])

\* C39: a notification enqueued for a submission on a view id describes a
\* candidate of the session that was stored under that view id when the
\* handler read it; with sessions of several view ids in the store none
\* carries a candidate stored only under another view id, and none is built
\* when the view id of the submission has no session.
C39_CandidateFromOwnSession == [][C39_Step]_vars

\* V1 holds "Fix" and V2 holds "Dup", both with number 7: the pick of 7 on V2
\* is notified as "Dup", and the session of V1 stays
C39_Witness ==
    /\ IsSelectionSubmission(ev)
    /\ ev.payload.view_id = <<"V", "2">>
    /\ SubmittedKey(ev) = <<"7">>
    /\ Len(slackLinerList) = 1
    /\ slackLinerList[1].metadata.event_payload.title = <<"D", "u", "p">>
    /\ calls[2] = RPushCall("slackliner", slackLinerList[1], TRUE)
    /\ DOMAIN sessions = {ViewKey(<<"V", "1">>)}
    /\ HoldsCandidates(sessions[ViewKey(<<"V", "1">>)], <<DecodePRItem(PR7).pr>>)

----------------------------------------------------------------------------
(* C40 *)

\* the published results with the expected discriminator and a non-empty
\* view_id and repo in their metadata
Qualifying ==
    {p \in LiveResults : IsPRListResult([kind |-> "output", payload |-> p])}

\* the n-th published result waits in the subscription
Waiting(n) ==
    \E i \in 1..Len(inbox["output"]) : inbox["output"][i].id = n

\* the result p has been handled with exactly one UI call: a replacement of
\* the view of p, by the Selection UI if the output of p parses to a non-empty
\* list and by an inline error otherwise
Answered(p, cs) ==
    /\ Cardinality(UICalls(cs)) = 1
    /\ \A i \in UICalls(cs) :
          /\ cs[i].op = "UpdateView" /\ cs[i].ok
          /\ cs[i].viewID = p.metadata.view_id.v
          /\ cs[i].modal.kind =
                IF Unparsable(p.output) \/ ZeroItems(p.output)
                THEN "error" ELSE "pr_chooser"

\* the subscriber takes the results in the order they were published, and a
\* qualifying one is answered
C40_Step ==
    handled' = handled + 1 =>
       /\ inbox["output"] # << >>
       /\ ev'.kind = "output"
       /\ ev'.id = inbox["output"][1].id
       /\ ev'.payload = inbox["output"][1].payload
       /\ ev'.payload \in Qualifying => Answered(ev'.payload, calls')

\* C40: with the result subscriber scheduled fairly and every Redis and Slack
\* call succeeding, every published result is eventually handled, and the
\* handling of one with the expected discriminator and a non-empty view_id
\* and repo makes exactly one UI replacement for its view id: the Selection UI
\* when its output parses to a non-empty list, an inline error otherwise.
C40_ResultEventuallyAnswered ==
    /\ [][C40_Step]_vars
    /\ \A n \in 1..MaxPublished : Waiting(n) ~> (ev.kind = "output" /\ ev.id = n)

C40_Witness ==
    /\ handled = 3 /\ inbox["output"] = << >>
    /\ ev.kind = "output" /\ ev.id = 3
    /\ ev.payload \in Qualifying
    /\ ev.payload.output = JGarbageDoc
    /\ ev.payload.metadata.view_id.v = <<"V", "1">>
    /\ Answered(ev.payload, calls)
    /\ ViewKey(<<"V", "1">>) \in DOMAIN sessions

====
